---- MODULE Spec2Model ----
(***************************************************************************)
(* Model of the app-manager coordination layer:                            *)
(*   - the single-slot InProgressChannel (utils.rs) and the manager loop   *)
(*     that drains it (build.rs / update.rs `run`),                        *)
(*   - the API key check and its security lock (api/utils.rs),             *)
(*   - the reboot manager and its key-availability interlock (reboot.rs),  *)
(*   - the software update pipeline (update.rs) against a build node that  *)
(*     publishes into latest/ (build.rs).                                  *)
(***************************************************************************)
EXTENDS Integers, Sequences, FiniteSets, TLC

(***************************************************************************)
(* Bounds                                                                  *)
(***************************************************************************)
NumSenders == 2

NumRequests == 2

\* Builds published by the build node, per software.
MaxVersion == 2

\* Update commands handled in one run of the process.
MaxCommands == 2

\* Generations of the backend data directory.
MaxDataGen == 2

\* Commits on the branch of each repository the build node follows.
MaxCommit == 2

\* Build commands handled in one run of the process.
MaxBuilds == 2

\* Characters in a configured SSH key path.
MaxPathLen == 2

\* Connections the TLS listener accepts in one run of the process.
MaxConnections == 2

Senders == 1..NumSenders

Requests == 1..NumRequests

(***************************************************************************)
(* InProgressChannel: state                                                *)
(***************************************************************************)
VARIABLES
    message_storage,  \* Arc<Mutex<Option<T>>> content: NoMessage or a message
    mutex,            \* owner of the tokio Mutex: Free, Receiver or a sender id
    wake,             \* number of () values queued in the mpsc::channel(1)
    spc,              \* position of every send_message caller
    sres,             \* result of the last send_message call of every caller
    rpc,              \* position of the manager task in `run`
    quit,             \* the quit broadcast has been sent
    inFlight,         \* history: senders whose accepted command is not yet handled
    sdrop,            \* history: the caller's last call began after the receiver was dropped
    lastOutcome       \* history: outcome of the last finished handler

chanVars == <<message_storage, mutex, wake, spc, sres, rpc, quit, inFlight, sdrop, lastOutcome>>

(***************************************************************************)
(* API key check: state                                                    *)
(***************************************************************************)
VARIABLES
    API_SECURITY_LOCK,  \* static AtomicBool
    req                 \* the HTTP requests passing through the middleware

authVars == <<API_SECURITY_LOCK, req>>

(***************************************************************************)
(* Mount manager and reboot manager: state                                 *)
(***************************************************************************)
VARIABLES
    config,                \* the parts of Config the managers read
    mount_mode,            \* StateStorage.state.mount_state.mode
    mpc,                   \* position of the mount loop of AppServer::run
    mcand,                 \* (key, mode) chosen by mount_if_needed
    storage_available,     \* availability_check_path exists
    mhist,                 \* history: the scripts run by the last mount attempt
    REBOOT_ON_NEXT_CHECK,  \* static AtomicBool
    reboot_required,       \* /var/run/reboot-required exists
    rbchan,                \* RebootNow messages queued in mpsc::channel(1)
    check_cooldown,        \* local of RebootManager::run
    rbpc,                  \* position of the reboot manager task
    rbfrom,                \* which select! branch started the current attempt
    attempt,               \* history: the last reboot attempt (run_reboot call)
    trigger                \* history: the last wake or message of the reboot manager

mountVars == <<mount_mode, mpc, mcand, storage_available, mhist>>

rebootVars == <<REBOOT_ON_NEXT_CHECK, reboot_required, rbchan, check_cooldown, rbpc, rbfrom, attempt,
                trigger>>

(***************************************************************************)
(* Update manager, its files, and the build node it downloads from: state  *)
(***************************************************************************)
VARIABLES
    disk,          \* files of update/, the install targets, the data dirs
    peer,          \* latest/ of the build node: versions of .gpg and .json
    upc,           \* position of the update manager inside update_software
    ucmd,          \* the UpdateSoftware message being handled
    ulocal,        \* locals: current_version, latest_version, downloaded bytes
    ures,          \* result of the last update_software call
    ucount,        \* history: commands started
    uhist,         \* history: what the current command has done so far
    prev           \* history: the command before the current one

updVars == <<disk, peer, upc, ucmd, ulocal, ures, ucount, uhist, prev>>

(***************************************************************************)
(* Build manager, its repositories and the build directory: state          *)
(***************************************************************************)
VARIABLES
    bkey,          \* <software>_download_key_path of the config, per software
    bscript,       \* <software>_pre_build_script is configured
    origin,        \* newest commit of the followed branch at the git server
    repo,          \* HEAD of the local clone (0: not cloned)
    wtarget,       \* commit of target/release/<binary> in the clone (0: none)
    latest_dir,    \* build/latest/: binary, <binary>.gpg, <binary>.json
    history_dir,   \* build/history/: number of entries
    bpc,           \* position of the build manager inside git_refresh_if_needed
    bcmd,          \* software of the build command being handled
    blocal,        \* locals of git_refresh_if_needed and copy_and_sign_binary
    bres,          \* result of the last git_refresh_if_needed call
    bcount,        \* history: commands started
    bhist,         \* history: what the current command has done so far
    bprev          \* history: the command before the current one

buildVars == <<bkey, bscript, origin, repo, wtarget, latest_dir, history_dir, bpc, bcmd, blocal,
               bres, bcount, bhist, bprev>>

(***************************************************************************)
(* AppServer::run, its listener tasks and the manager tasks: state         *)
(***************************************************************************)
VARIABLES
    sigterm,            \* SIGTERM or SIGINT has been delivered
    svpc,               \* position of AppServer::run
    backend_installed,  \* backend_install_location exists
    ltask,              \* position of the TLS listener task (server_task1)
    conns,              \* connection tasks that hold a clone of drop_after_connection
    nconn,              \* connections accepted so far
    ltask2,             \* position of the second listener task (server_task2)
    mtask,              \* position of each manager task in its run loop
    svhist              \* history: scripts the supervisor has run

serverVars == <<sigterm, svpc, backend_installed, ltask, conns, nconn, ltask2, mtask, svhist>>

VARIABLES
    date_z,            \* what `date +%z` prints
    utc_now,           \* OffsetDateTime::now_utc()
    reboot_at,         \* [reboot_if_needed] time of the config
    cpc,               \* position inside sleep_until_reboot_check
    cres,              \* its result
    utc_offset_hours,  \* what get_utc_offset_hours returned
    local_now,         \* what get_local_time returned
    sleep_for          \* the duration handed to sleep()

clockVars ==
    <<date_z, utc_now, reboot_at, cpc, cres, utc_offset_hours, local_now, sleep_for>>

vars ==
    <<chanVars, authVars, config, mountVars, rebootVars, updVars, buildVars, serverVars,
      clockVars>>

nonChanVars ==
    <<authVars, config, mountVars, rebootVars, updVars, buildVars, serverVars, clockVars>>

nonAuthVars ==
    <<chanVars, config, mountVars, rebootVars, updVars, buildVars, serverVars, clockVars>>

\* What the mount and reboot actions leave alone, besides `quit`.

NoMessage == [from |-> 0]

Free == 0

Receiver == -1

\* tokio::sync::mpsc::channel(1)
WakeCapacity == 1

NoResult == [r |-> "none", holder |-> Free]

ChanInit ==
    /\ message_storage = NoMessage
    /\ mutex = Free
    /\ wake = 0
    /\ spc = [i \in Senders |-> "idle"]
    /\ sres = [i \in Senders |-> NoResult]
    /\ rpc = "select"
    /\ quit = FALSE
    /\ inFlight = {}
    /\ sdrop = [i \in Senders |-> FALSE]
    /\ lastOutcome = "none"

(***************************************************************************)
(* InProgressSender::send_message                                          *)
(***************************************************************************)

\* message_storage.try_lock(): AlreadyLocked when the mutex is held.
SendTryLock(i) ==
    /\ spc[i] = "idle"
    /\ IF mutex = Free
          THEN /\ mutex' = i
               /\ spc' = [spc EXCEPT ![i] = "locked"]
               /\ sres' = [sres EXCEPT ![i] = NoResult]
          ELSE /\ sres' = [sres EXCEPT ![i] = [r |-> "AlreadyLocked", holder |-> mutex]]
               /\ UNCHANGED <<mutex, spc>>
    /\ sdrop' = [sdrop EXCEPT ![i] = (rpc = "stopped")]
    /\ UNCHANGED <<message_storage, wake, rpc, quit, inFlight, lastOutcome>>
    /\ UNCHANGED nonChanVars

\* Mutation: send_message without the `is_some()` test.
SlotIsFree_NoCheck(storage) == TRUE

\* The slot test of send_message: TRUE when the message may be placed.
SlotIsFree(storage) == storage = NoMessage

\* `if current_message.is_some() { return Err(CommandInProgress) } else
\* { *current_message = Some(message) }; drop(current_message)`.
SendPlace(i) ==
    /\ spc[i] = "locked"
    /\ mutex = i
    /\ mutex' = Free
    /\ IF SlotIsFree(message_storage)
          THEN /\ message_storage' = [from |-> i]
               /\ inFlight' = inFlight \cup {i}
               /\ spc' = [spc EXCEPT ![i] = "notify"]
               /\ UNCHANGED sres
          ELSE /\ sres' = [sres EXCEPT ![i] = [r |-> "CommandInProgress", holder |-> Free]]
               /\ spc' = [spc EXCEPT ![i] = "idle"]
               /\ UNCHANGED <<message_storage, inFlight>>
    /\ UNCHANGED <<wake, rpc, quit, lastOutcome, sdrop>>
    /\ UNCHANGED nonChanVars

\* `self.sender.send(()).await`: ChannelBroken when the receiver is gone,
\* otherwise waits for capacity in the wake channel.
SendNotify(i) ==
    /\ spc[i] = "notify"
    /\ IF rpc = "stopped"
          THEN /\ sres' = [sres EXCEPT ![i] = [r |-> "ChannelBroken", holder |-> Free]]
               /\ UNCHANGED wake
          ELSE /\ wake < WakeCapacity
               /\ wake' = wake + 1
               /\ sres' = [sres EXCEPT ![i] = [r |-> "Ok", holder |-> Free]]
    /\ spc' = [spc EXCEPT ![i] = "idle"]
    /\ UNCHANGED <<message_storage, mutex, rpc, quit, inFlight, lastOutcome, sdrop>>
    /\ UNCHANGED nonChanVars

(***************************************************************************)
(* Manager task: BuildManager::run / UpdateManager::run                    *)
(***************************************************************************)

\* select! branch `self.receiver.is_new_message_available()` returned Ok(()).
RecvWake ==
    /\ rpc = "select"
    /\ wake > 0
    /\ wake' = wake - 1
    /\ rpc' = "locking"
    /\ UNCHANGED <<message_storage, mutex, spc, sres, quit, inFlight, lastOutcome, sdrop>>
    /\ UNCHANGED nonChanVars

\* select! branch `quit_notification.recv()`: the task returns and the
\* receiver is dropped.
RecvQuit ==
    /\ rpc = "select"
    /\ quit
    /\ rpc' = "stopped"
    /\ UNCHANGED <<message_storage, mutex, wake, spc, sres, quit, inFlight, lastOutcome, sdrop>>
    /\ UNCHANGED nonChanVars

\* InProgressContainer::drop: `*self.in_progress = None` and the guard is
\* released.
ContainerDrop(storage) == NoMessage

\* `lock_message_container().await` followed by `get_message()`.
RecvLock ==
    /\ rpc = "locking"
    /\ mutex = Free
    /\ IF message_storage # NoMessage
          THEN /\ mutex' = Receiver
               /\ rpc' = "handling"
               /\ UNCHANGED message_storage
          ELSE \* warn!("Unexpected empty container"); the container is dropped
               /\ message_storage' = ContainerDrop(message_storage)
               /\ rpc' = "select"
               /\ UNCHANGED mutex
    /\ UNCHANGED <<wake, spc, sres, quit, inFlight, lastOutcome, sdrop>>
    /\ UNCHANGED nonChanVars

\* Mutation: the manager task returns when the pipeline failed.
AfterHandler_StopOnError(outcome) == IF outcome = "failed" THEN "stopped" ELSE "select"

\* Where the manager loop goes after handle_message returned.
AfterHandler(outcome) == "select"

\* handle_message returns (the pipeline result is only logged) and the
\* container goes out of scope at the end of the select! branch.
HandleMessage(outcome) ==
    /\ rpc = "handling"
    /\ mutex = Receiver
    /\ message_storage' = ContainerDrop(message_storage)
    /\ mutex' = Free
    /\ rpc' = AfterHandler(outcome)
    /\ inFlight' = inFlight \ {message_storage.from}
    /\ lastOutcome' = outcome
    /\ UNCHANGED <<wake, spc, sres, quit, sdrop>>
    /\ UNCHANGED nonChanVars

\* Server::run drops server_quit_handle.
Quit ==
    /\ ~quit
    /\ quit' = TRUE
    /\ UNCHANGED <<message_storage, mutex, wake, spc, sres, rpc, inFlight, lastOutcome, sdrop>>
    /\ UNCHANGED nonChanVars

(***************************************************************************)
(* authenticate_with_api_key (middleware in front of every private route)  *)
(***************************************************************************)

\* The configured key and the values a request may present.
ApiKey == "configured-key"

PresentedKeys == {ApiKey, "configured-keY", ""}

\* What a request carries in x-api-key: nothing, bytes that are no visible
\* ASCII string (to_str fails), or a string.
Headers ==
    {[kind |-> "missing", key |-> ""], [kind |-> "opaque", key |-> ""]}
        \cup {[kind |-> "str", key |-> k] : k \in PresentedKeys}

IdleRequest ==
    [pc |-> "idle", header |-> [kind |-> "missing", key |-> ""],
     arrivedLocked |-> FALSE, seenLock |-> FALSE, status |-> "none", handled |-> FALSE]

AuthInit ==
    /\ API_SECURITY_LOCK = FALSE
    /\ req = [q \in Requests |-> IdleRequest]

\* A request arrives; headers().get(..) and to_str() answer BAD_REQUEST
\* before the lock is looked at.
AuthHeader(q, h) ==
    /\ req[q].pc \in {"idle", "done"}
    /\ req' = [req EXCEPT ![q] =
                 IF h.kind = "str"
                    THEN [pc |-> "parsed", header |-> h, arrivedLocked |-> API_SECURITY_LOCK,
                          seenLock |-> FALSE, status |-> "none", handled |-> FALSE]
                    ELSE [pc |-> "done", header |-> h, arrivedLocked |-> API_SECURITY_LOCK,
                          seenLock |-> FALSE, status |-> "BAD_REQUEST", handled |-> FALSE]]
    /\ UNCHANGED API_SECURITY_LOCK
    /\ UNCHANGED nonAuthVars

\* API_SECURITY_LOCK.load(Ordering::Relaxed)
AuthLoad(q) ==
    /\ req[q].pc = "parsed"
    /\ req' = [req EXCEPT ![q].pc = "loaded", ![q].seenLock = API_SECURITY_LOCK]
    /\ UNCHANGED API_SECURITY_LOCK
    /\ UNCHANGED nonAuthVars

\* Mutation: a correct key is let through without looking at the lock.
KeyAccepted_IgnoreLock(seenLock, key) == key = ApiKey

\* `if lock { Err(LOCKED) } else if api_key == key_str { next.run(req) }`
KeyAccepted(seenLock, key) == ~seenLock /\ key = ApiKey

\* The branch taken after the load: run the handler, or answer LOCKED and,
\* when the lock was not seen set, store the lock.
AuthDecide(q) ==
    /\ req[q].pc = "loaded"
    /\ IF KeyAccepted(req[q].seenLock, req[q].header.key)
          THEN /\ req' = [req EXCEPT ![q].pc = "done", ![q].status = "OK", ![q].handled = TRUE]
               /\ UNCHANGED API_SECURITY_LOCK
          ELSE /\ req' = [req EXCEPT ![q].pc = "done", ![q].status = "LOCKED"]
               /\ API_SECURITY_LOCK' = (API_SECURITY_LOCK \/ ~req[q].seenLock)
    /\ UNCHANGED nonAuthVars

AuthNext ==
    \/ \E q \in Requests, h \in Headers : AuthHeader(q, h)
    \/ \E q \in Requests : AuthLoad(q)
    \/ \E q \in Requests : AuthDecide(q)

(***************************************************************************)
(* Config                                                                  *)
(***************************************************************************)

\* secure_storage: [secure_storage] is present; local_key: it carries
\* encryption_key_text; reboot_time: [reboot_if_needed] is present.
\* data_reset_dir: [software_update_provider] carries backend_data_reset_dir.
\* update_provider: [software_update_provider] is present.
Configs ==
    {c \in [secure_storage : BOOLEAN, local_key : BOOLEAN, reboot_time : BOOLEAN,
            data_reset_dir : BOOLEAN, update_provider : BOOLEAN] :
        c.data_reset_dir => c.update_provider}

DefaultConfig ==
    [secure_storage |-> TRUE, local_key |-> FALSE, reboot_time |-> TRUE,
     data_reset_dir |-> TRUE, update_provider |-> TRUE]

(***************************************************************************)
(* MountManager::mount_if_needed and the mount loop of AppServer::run      *)
(***************************************************************************)
MountModes ==
    {"NotMounted", "MountedWithRemoteKey", "MountedWithLocalKey",
     "MountedWithDefaultKey", "MountedWithUnknownKey"}

NoCandidate == [key |-> "none", mode |-> "NotMounted"]

\* What one call of mount_if_needed has done: the answer of the key
\* provider, the answer of is-default-encryption-password, the key fed to
\* change-encryption-password and to open-encryption and how they exited.
NoMountHistory ==
    [getkey |-> "none", isdefault |-> "none", changed |-> "none", change |-> "none",
     opened |-> "none", open |-> "none"]

MountInit ==
    /\ mount_mode = "NotMounted"
    /\ mpc = "start"
    /\ mcand = NoCandidate
    /\ storage_available \in BOOLEAN
    /\ mhist = NoMountHistory

\* Mutation: the mount loop goes round again after Ok(()).
AfterMountOk_LoopAgain == "retrywait"

\* `Ok(()) => { break; }` of the mount loop.
AfterMountOk == "done"

\* `if storage_config.availability_check_path.exists()`; without
\* [secure_storage] the loop is skipped.
MountCheckAvailable ==
    /\ mpc = "start"
    /\ IF ~config.secure_storage
          THEN /\ mpc' = "done"
               /\ UNCHANGED mount_mode
          ELSE IF storage_available
                  THEN /\ mount_mode' = "MountedWithUnknownKey"
                       /\ mpc' = AfterMountOk
                  ELSE /\ mpc' = "getkey"
                       /\ UNCHANGED mount_mode
    /\ mhist' = NoMountHistory
    /\ UNCHANGED <<mcand, storage_available>>
    /\ UNCHANGED <<clockVars, serverVars, buildVars, chanVars, authVars, config, rebootVars, updVars>>

\* get_encryption_key() and the `match key` that picks key and mode.
MountGetKey(ok) ==
    /\ mpc = "getkey"
    /\ mcand' = IF ok THEN [key |-> "remote", mode |-> "MountedWithRemoteKey"]
                ELSE IF config.local_key
                        THEN [key |-> "local", mode |-> "MountedWithLocalKey"]
                        ELSE NoCandidate
    /\ mhist' = [mhist EXCEPT !.getkey = IF ok THEN "ok" ELSE "failed"]
    /\ mpc' = "isdefault"
    /\ UNCHANGED <<mount_mode, storage_available>>
    /\ UNCHANGED <<clockVars, serverVars, buildVars, chanVars, authVars, config, rebootVars, updVars>>

\* is_default_password: Ok(true) when the script exits zero, Ok(false) when
\* it exits non-zero, Err when sudo could not be run.
IsDefaultOutcomes == {"yes", "no", "error"}

\* Mutation: the default password is never replaced.
ChangesPassword_Never(outcome) == FALSE

\* `if self.is_default_password().await? { change_default_password(..) }`
ChangesPassword(outcome) == outcome = "yes"

\* is_default_password() in either arm of `match key`.
MountIsDefault(outcome) ==
    /\ mpc = "isdefault"
    /\ mhist' = [mhist EXCEPT !.isdefault = outcome]
    /\ IF outcome = "error"
          THEN /\ mpc' = "retrywait"
               /\ UNCHANGED mcand
          ELSE IF mcand.key # "none"
                  THEN /\ mpc' = IF ChangesPassword(outcome) THEN "changepw" ELSE "open"
                       /\ UNCHANGED mcand
                  ELSE IF outcome = "yes"
                          THEN /\ mcand' = [key |-> "default",
                                            mode |-> "MountedWithDefaultKey"]
                               /\ mpc' = "open"
                          ELSE /\ mpc' = "retrywait"
                               /\ UNCHANGED mcand
    /\ UNCHANGED <<mount_mode, storage_available>>
    /\ UNCHANGED <<clockVars, serverVars, buildVars, chanVars, authVars, config, rebootVars, updVars>>

\* change_default_password(key)
MountChangePassword(ok) ==
    /\ mpc = "changepw"
    /\ mhist' = [mhist EXCEPT !.changed = mcand.key,
                              !.change = IF ok THEN "ok" ELSE "failed"]
    /\ mpc' = IF ok THEN "open" ELSE "retrywait"
    /\ UNCHANGED <<mount_mode, mcand, storage_available>>
    /\ UNCHANGED <<clockVars, serverVars, buildVars, chanVars, authVars, config, rebootVars, updVars>>

\* Mutation: the mode is committed whatever open-encryption returned.
AfterOpen_Commit(ok) == "commit"

\* `self.mount_secure_storage(key).await?`
AfterOpen(ok) == IF ok THEN "commit" ELSE "retrywait"

\* mount_secure_storage(key): open-encryption exits zero or not.
MountOpen(ok) ==
    /\ mpc = "open"
    /\ mhist' = [mhist EXCEPT !.opened = mcand.key,
                              !.open = IF ok THEN "ok" ELSE "failed"]
    /\ mpc' = AfterOpen(ok)
    /\ storage_available' = (storage_available \/ ok)
    /\ UNCHANGED <<mount_mode, mcand>>
    /\ UNCHANGED <<clockVars, serverVars, buildVars, chanVars, authVars, config, rebootVars, updVars>>

\* `self.state.modify(|s| s.mount_state.set_mode(mode))`
MountCommit ==
    /\ mpc = "commit"
    /\ mount_mode' = mcand.mode
    /\ mpc' = AfterMountOk
    /\ UNCHANGED <<mcand, storage_available, mhist>>
    /\ UNCHANGED <<clockVars, serverVars, buildVars, chanVars, authVars, config, rebootVars, updVars>>

\* wait_quit_signal has something to return: the signal was delivered.
SignalReceived == quit \/ sigterm

\* Mutation: the mount loop gives up after one failed attempt.
AfterRetryWait_GiveUp(signalled) == "done"

\* The select! of the mount loop: `return` on the quit signal, the next
\* attempt after the hour.
AfterRetryWait(signalled) == IF signalled THEN "aborted" ELSE "start"

\* The hour between two attempts, or the quit signal during it.
MountRetry ==
    /\ mpc = "retrywait"
    /\ mpc' = AfterRetryWait(SignalReceived)
    /\ mcand' = NoCandidate
    /\ UNCHANGED <<mount_mode, storage_available, mhist>>
    /\ UNCHANGED <<clockVars, serverVars, buildVars, chanVars, authVars, config, rebootVars, updVars>>

(***************************************************************************)
(* RebootManager                                                           *)
(***************************************************************************)
NoAttempt ==
    [mode |-> "NotMounted", keyAsked |-> FALSE, keyOk |-> FALSE,
     invoked |-> FALSE, ended |-> FALSE, made |-> FALSE]

\* What the reboot manager found at a trigger and whether it went on to
\* run_reboot.
NoTrigger ==
    [kind |-> "none", file |-> FALSE, latch |-> FALSE, attempted |-> FALSE,
     prevAborted |-> FALSE]

TriggerOf(kind, attempted) ==
    [kind |-> kind, file |-> reboot_required, latch |-> REBOOT_ON_NEXT_CHECK,
     attempted |-> attempted, prevAborted |-> attempt.ended /\ ~attempt.invoked]

RebootInit ==
    /\ REBOOT_ON_NEXT_CHECK = FALSE
    /\ reboot_required = FALSE
    /\ rbchan = 0
    /\ check_cooldown = FALSE
    /\ rbpc = "select"
    /\ rbfrom = "none"
    /\ attempt = NoAttempt
    /\ trigger = NoTrigger

\* mpsc::channel(1) of RebootManager::new
RebootChannelCapacity == 1

\* Mutation: every mounted mode asks the key provider.
NeedsKeyCheck_AnyMounted(mode) == mode # "NotMounted"

\* The `match` of run_reboot: which modes ask the key provider first.
NeedsKeyCheck(mode) == mode = "MountedWithRemoteKey"

\* run_reboot begins: `self.state.get(|s| s.mount_state.mode())`.
RunRebootBegin(from) ==
    /\ rbfrom' = from
    /\ attempt' = [mode |-> mount_mode, keyAsked |-> FALSE, keyOk |-> FALSE,
                   invoked |-> FALSE, ended |-> FALSE, made |-> TRUE]
    /\ rbpc' = IF NeedsKeyCheck(mount_mode) THEN "key" ELSE "reboot"

\* Mutation: the cooldown is entered only when the sleep returned Ok.
CooldownAfterWake_OnlyOk(result) == result = "ok"

\* `check_cooldown = true;` after the `match result` of the sleep branch,
\* for Ok and for Err alike.
CooldownAfterWake(result) == TRUE

\* What the select! branch does once its reboot attempt is over.
RunRebootEnd ==
    /\ rbpc' = "select"
    /\ rbfrom' = "none"
    /\ check_cooldown' = (IF rbfrom = "scheduled" THEN CooldownAfterWake("ok")
                                                  ELSE check_cooldown)

\* Mutation: reboot_if_needed() without the latch.
RebootNeeded_FileOnly == reboot_required

\* Mutation: reboot_if_needed() without the reboot-required file.
RebootNeeded_LatchOnly == REBOOT_ON_NEXT_CHECK

\* reboot_if_needed(): the reboot-required file or the latch.
RebootNeeded == reboot_required \/ REBOOT_ON_NEXT_CHECK

\* Mutation: without [reboot_if_needed] the sleep returns at once.
SleepMayComplete_Unconfigured(reboot_time) == TRUE

\* sleep_until_reboot_check: `if let Some(reboot) = config.reboot_if_needed()`
\* computes the sleep, `else { futures::future::pending::<()>().await; .. }`
\* never returns.
SleepMayComplete(reboot_time) == reboot_time

\* select! branch sleep_until_reboot_check returned Ok(()).
RbSleepCompleted ==
    /\ rbpc = "select"
    /\ ~check_cooldown
    /\ SleepMayComplete(config.reboot_time)
    /\ IF RebootNeeded
          THEN /\ RunRebootBegin("scheduled")
               /\ trigger' = TriggerOf("wake", TRUE)
               /\ UNCHANGED check_cooldown
          ELSE /\ check_cooldown' = CooldownAfterWake("ok")
               /\ trigger' = TriggerOf("wake", FALSE)
               /\ UNCHANGED <<rbpc, rbfrom, attempt>>
    /\ UNCHANGED <<REBOOT_ON_NEXT_CHECK, reboot_required, rbchan>>
    /\ UNCHANGED <<clockVars, serverVars, buildVars, chanVars, authVars, config, mountVars, updVars>>

\* select! branch sleep_until_reboot_check returned Err (date failed, or
\* the configured time is no time of day).
RbSleepFailed ==
    /\ rbpc = "select"
    /\ ~check_cooldown
    /\ check_cooldown' = CooldownAfterWake("failed")
    /\ trigger' = TriggerOf("wake_failed", FALSE)
    /\ UNCHANGED <<REBOOT_ON_NEXT_CHECK, reboot_required, rbchan, rbpc, rbfrom, attempt>>
    /\ UNCHANGED <<clockVars, serverVars, buildVars, chanVars, authVars, config, mountVars, updVars>>

\* select! branch `sleep(120 s), if check_cooldown`.
RbCooldownElapsed ==
    /\ rbpc = "select"
    /\ check_cooldown
    /\ check_cooldown' = FALSE
    /\ UNCHANGED <<REBOOT_ON_NEXT_CHECK, reboot_required, rbchan, rbpc, rbfrom, attempt, trigger>>
    /\ UNCHANGED <<clockVars, serverVars, buildVars, chanVars, authVars, config, mountVars, updVars>>

\* Mutation: the recv branch is polled outside the cooldown only.
RecvBranchEnabled_OutsideCooldown(cooldown) == ~cooldown

\* The recv branch of select! has no `if` precondition.
RecvBranchEnabled(cooldown) == TRUE

\* select! branch `self.receiver.recv()` with Some(RebootNow).
RbRecvMessage ==
    /\ rbpc = "select"
    /\ RecvBranchEnabled(check_cooldown)
    /\ rbchan > 0
    /\ rbchan' = rbchan - 1
    /\ RunRebootBegin("message")
    /\ trigger' = TriggerOf("message", TRUE)
    /\ UNCHANGED <<REBOOT_ON_NEXT_CHECK, reboot_required, check_cooldown>>
    /\ UNCHANGED <<clockVars, serverVars, buildVars, chanVars, authVars, config, mountVars, updVars>>

\* select! branch quit_notification.recv().
RbQuit ==
    /\ rbpc = "select"
    /\ quit
    /\ rbpc' = "stopped"
    /\ UNCHANGED <<REBOOT_ON_NEXT_CHECK, reboot_required, rbchan, check_cooldown, rbfrom, attempt, trigger>>
    /\ UNCHANGED <<clockVars, serverVars, buildVars, chanVars, authVars, config, mountVars, updVars>>

\* get_encryption_key() of run_reboot: Err aborts the attempt.
RbKeyResult(ok) ==
    /\ rbpc = "key"
    /\ attempt' = [attempt EXCEPT !.keyAsked = TRUE, !.keyOk = ok, !.ended = ~ok]
    /\ IF ok
          THEN /\ rbpc' = "reboot"
               /\ UNCHANGED <<rbfrom, check_cooldown>>
          ELSE RunRebootEnd
    /\ UNCHANGED <<REBOOT_ON_NEXT_CHECK, reboot_required, rbchan, trigger>>
    /\ UNCHANGED <<clockVars, serverVars, buildVars, chanVars, authVars, config, mountVars, updVars>>

\* `sudo reboot` is run; its exit status is only logged by the callers.
RbSudoReboot(success) ==
    /\ rbpc = "reboot"
    /\ attempt' = [attempt EXCEPT !.invoked = TRUE, !.ended = TRUE]
    /\ RunRebootEnd
    /\ UNCHANGED <<REBOOT_ON_NEXT_CHECK, reboot_required, rbchan, trigger>>
    /\ UNCHANGED <<clockVars, serverVars, buildVars, chanVars, authVars, config, mountVars, updVars>>

\* RebootManagerHandle::reboot_now: waits for room in the channel, fails
\* when the reboot manager has returned.
RebootNowSend ==
    IF rbpc = "stopped"
       THEN UNCHANGED rbchan
       ELSE /\ rbchan < RebootChannelCapacity
            /\ rbchan' = rbchan + 1

\* install_latest_software as seen by the reboot manager: the latch store
\* and, with force_reboot, reboot_now().
InstallRequestsReboot(force_reboot) ==
    /\ REBOOT_ON_NEXT_CHECK' = TRUE
    /\ IF force_reboot THEN RebootNowSend ELSE UNCHANGED rbchan
    /\ UNCHANGED <<reboot_required, check_cooldown, rbpc, rbfrom, attempt, trigger>>
    /\ UNCHANGED <<clockVars, serverVars, buildVars, chanVars, authVars, config, mountVars, updVars>>

\* The operating system asks for a reboot (package upgrade).
RebootRequiredAppears ==
    /\ ~reboot_required
    /\ reboot_required' = TRUE
    /\ UNCHANGED <<REBOOT_ON_NEXT_CHECK, rbchan, check_cooldown, rbpc, rbfrom, attempt, trigger>>
    /\ UNCHANGED <<clockVars, serverVars, buildVars, chanVars, authVars, config, mountVars, updVars>>

\* The key provider answers, or not, independently for every request.
RebootNext ==
    \/ MountCheckAvailable
    \/ \E ok \in BOOLEAN : MountGetKey(ok)
    \/ \E outcome \in IsDefaultOutcomes : MountIsDefault(outcome)
    \/ \E ok \in BOOLEAN : MountChangePassword(ok)
    \/ \E ok \in BOOLEAN : MountOpen(ok)
    \/ MountCommit
    \/ MountRetry
    \/ RbSleepCompleted
    \/ RbSleepFailed
    \/ RbCooldownElapsed
    \/ RbRecvMessage
    \/ RbQuit
    \/ \E ok \in BOOLEAN : RbKeyResult(ok)
    \/ \E success \in BOOLEAN : RbSudoReboot(success)
    \/ \E force_reboot \in BOOLEAN : InstallRequestsReboot(force_reboot)
    \/ RebootRequiredAppears
    \/ Quit

(***************************************************************************)
(* BuildInfo and its JSON form                                             *)
(***************************************************************************)
Kinds == {"manager", "backend"}

\* BuildInfo::default(): every field the empty string.  Commit hashes,
\* timestamps and build-info strings are numbered; 0 is the empty string.
DefaultBuildInfo == [commit_sha |-> 0, name |-> "", timestamp |-> 0, build_info |-> 0]

\* The BuildInfo copy_and_sign_binary writes for build number v of software k.
BuildInfoOf(k, v) == [commit_sha |-> v, name |-> k, timestamp |-> v, build_info |-> v]

\* A file that does not exist.
NoFile == <<>>

\* serde_json::to_string_pretty: the fields in declaration order.
ToJson(b) == <<b.commit_sha, b.name, b.timestamp, b.build_info>>

\* serde_json::from_str
FromJson(t) == [commit_sha |-> t[1], name |-> t[2], timestamp |-> t[3], build_info |-> t[4]]

\* read_build_info: the default BuildInfo when the file does not exist.
ReadBuildInfo(file) == IF file = NoFile THEN DefaultBuildInfo ELSE FromJson(file)

(***************************************************************************)
(* The build node's latest/ as the update provider serves it               *)
(***************************************************************************)
PeerInit == peer = [gpg |-> [k \in Kinds |-> 0], json |-> [k \in Kinds |-> 0]]

\* The update manager looks at the provider twice, in download_latest_info
\* and in download_latest_encrypted_binary.  A publish commutes with every
\* other step of the pipeline and with every command for the other binary,
\* so it is enough to let the build node move right before each look.
PublishVisible(k) == upc \in {"fetch_info", "download"} /\ ucmd.software = k

\* copy_and_sign_binary: `copy(&signature_path, latest_dir.join(..))` of a
\* new build.
PublishEncryptedBinary(k) ==
    /\ PublishVisible(k)
    /\ peer.gpg[k] < MaxVersion
    /\ peer' = [peer EXCEPT !.gpg[k] = @ + 1]
    /\ uhist' = [uhist EXCEPT !.published = TRUE, !.skew = @ \/ upc = "download"]
    /\ UNCHANGED <<disk, upc, ucmd, ulocal, ures, ucount, prev>>
    /\ UNCHANGED <<clockVars, serverVars, buildVars, chanVars, authVars, config, mountVars, rebootVars>>

\* copy_and_sign_binary: `copy(&build_info_path, latest_dir.join(..))`, the
\* last copy of a publish.
PublishBuildInfo(k) ==
    /\ PublishVisible(k)
    /\ peer.json[k] < peer.gpg[k]
    /\ peer' = [peer EXCEPT !.json[k] = peer.gpg[k]]
    /\ uhist' = [uhist EXCEPT !.published = TRUE]
    /\ UNCHANGED <<disk, upc, ucmd, ulocal, ures, ucount, prev>>
    /\ UNCHANGED <<clockVars, serverVars, buildVars, chanVars, authVars, config, mountVars, rebootVars>>

(***************************************************************************)
(* UpdateManager::update_software                                          *)
(***************************************************************************)
NoCommand == [software |-> "manager", force_reboot |-> FALSE, reset_data |-> FALSE]

Commands == [software : Kinds, force_reboot : BOOLEAN, reset_data : BOOLEAN]

NoLocals == [current |-> DefaultBuildInfo, latest |-> DefaultBuildInfo, bytes |-> 0]

DiskInit ==
    [json |-> [k \in Kinds |-> NoFile],
     gpg |-> [k \in Kinds |-> 0],
     staged |-> [k \in Kinds |-> 0],
     installed |-> [k \in Kinds |-> NoFile],
     installed_old |-> [k \in Kinds |-> NoFile],
     target |-> [k \in Kinds |-> 0],
     target_old |-> [k \in Kinds |-> 0],
     data_dir |-> 1,
     data_dir_old |-> 0,
     data_gen |-> 1]

NoHistory ==
    [downloaded |-> FALSE, wrote |-> FALSE, installed |-> FALSE, sent |-> 0,
     published |-> FALSE, skew |-> FALSE, pre |-> DiskInit, latch0 |-> FALSE,
     restart |-> FALSE, stop |-> "none", start |-> "none"]

NoPrev == [valid |-> FALSE, cmd |-> NoCommand, res |-> "none", latest |-> DefaultBuildInfo,
           hist |-> NoHistory]

UpdInit ==
    /\ disk = DiskInit
    /\ PeerInit
    /\ upc = "idle"
    /\ ucmd = NoCommand
    /\ ulocal = NoLocals
    /\ ures = "none"
    /\ ucount = 0
    /\ uhist = NoHistory
    /\ prev = NoPrev

\* update_software returns: Ok(()) or the first error.
UpdReturn(result) ==
    /\ upc' = "idle"
    /\ ures' = result

\* handle_message calls update_software for an UpdateSoftware message.
UpdateSoftware(cmd) ==
    /\ upc = "idle"
    /\ ucount < MaxCommands
    /\ ucount' = ucount + 1
    /\ ucmd' = cmd
    /\ upc' = "read_current"
    /\ ures' = "running"
    /\ ulocal' = NoLocals
    /\ prev' = [valid |-> ucount > 0, cmd |-> ucmd, res |-> ures, latest |-> ulocal.latest,
                hist |-> uhist]
    /\ uhist' = [NoHistory EXCEPT !.pre = disk, !.latch0 = REBOOT_ON_NEXT_CHECK]
    /\ UNCHANGED <<disk, peer>>
    /\ UNCHANGED <<clockVars, serverVars, buildVars, chanVars, authVars, config, mountVars, rebootVars>>

\* read_latest_build_info: reading or parsing an existing file may fail.
ReadLatestBuildInfo(ok) ==
    /\ upc = "read_current"
    /\ (~ok => disk.json[ucmd.software] # NoFile)
    /\ IF ok
          THEN /\ ulocal' = [ulocal EXCEPT !.current = ReadBuildInfo(disk.json[ucmd.software])]
               /\ upc' = "fetch_info"
               /\ UNCHANGED ures
          ELSE /\ UpdReturn("failed")
               /\ UNCHANGED ulocal
    /\ UNCHANGED <<disk, peer, ucmd, ucount, uhist, prev>>
    /\ UNCHANGED <<clockVars, serverVars, buildVars, chanVars, authVars, config, mountVars, rebootVars>>

\* download_latest_info: the provider serves latest/<binary>.json, which
\* the client parses; fails when the file is not there or on any API error.
DownloadLatestInfo(ok) ==
    /\ upc = "fetch_info"
    /\ (ok => peer.json[ucmd.software] # 0)
    /\ IF ok
          THEN /\ ulocal' = [ulocal EXCEPT !.latest =
                      FromJson(ToJson(BuildInfoOf(ucmd.software, peer.json[ucmd.software])))]
               /\ upc' = "compare_current"
               /\ UNCHANGED ures
          ELSE /\ UpdReturn("failed")
               /\ UNCHANGED ulocal
    /\ UNCHANGED <<disk, peer, ucmd, ucount, uhist, prev>>
    /\ UNCHANGED <<clockVars, serverVars, buildVars, chanVars, authVars, config, mountVars, rebootVars>>

\* `if current_version != latest_version`
NeedsDownload(current, latest) == current # latest

CompareCurrent ==
    /\ upc = "compare_current"
    /\ upc' = IF NeedsDownload(ulocal.current, ulocal.latest) THEN "download" ELSE "read_installed"
    /\ UNCHANGED <<disk, peer, ucmd, ulocal, ures, ucount, uhist, prev>>
    /\ UNCHANGED <<clockVars, serverVars, buildVars, chanVars, authVars, config, mountVars, rebootVars>>

\* download_latest_encrypted_binary: the provider serves latest/<binary>.gpg.
DownloadLatestEncryptedBinary(ok) ==
    /\ upc = "download"
    /\ (ok => peer.gpg[ucmd.software] # 0)
    /\ IF ok
          THEN /\ ulocal' = [ulocal EXCEPT !.bytes = peer.gpg[ucmd.software]]
               /\ uhist' = [uhist EXCEPT !.downloaded = TRUE]
               /\ upc' = "write_gpg"
               /\ UNCHANGED ures
          ELSE /\ UpdReturn("failed")
               /\ UNCHANGED <<ulocal, uhist>>
    /\ UNCHANGED <<disk, peer, ucmd, ucount, prev>>
    /\ UNCHANGED <<clockVars, serverVars, buildVars, chanVars, authVars, config, mountVars, rebootVars>>

\* `tokio::fs::write(&encrypted_binary_path, encrypted_binary)`
WriteEncryptedBinary(ok) ==
    /\ upc = "write_gpg"
    /\ IF ok
          THEN /\ disk' = [disk EXCEPT !.gpg[ucmd.software] = ulocal.bytes]
               /\ uhist' = [uhist EXCEPT !.wrote = TRUE]
               /\ upc' = "import_key"
               /\ UNCHANGED ures
          ELSE /\ UpdReturn("failed")
               /\ UNCHANGED <<disk, uhist>>
    /\ UNCHANGED <<peer, ucmd, ulocal, ucount, prev>>
    /\ UNCHANGED <<clockVars, serverVars, buildVars, chanVars, authVars, config, mountVars, rebootVars>>

\* import_gpg_public_key
ImportGpgPublicKey(ok) ==
    /\ upc = "import_key"
    /\ IF ok
          THEN /\ upc' = "remove_staged"
               /\ UNCHANGED ures
          ELSE UpdReturn("failed")
    /\ UNCHANGED <<disk, peer, ucmd, ulocal, ucount, uhist, prev>>
    /\ UNCHANGED <<clockVars, serverVars, buildVars, chanVars, authVars, config, mountVars, rebootVars>>

\* decrypt_encrypted_binary: `if decrypted.exists() { remove_file }`
RemovePreviousBinary(ok) ==
    /\ upc = "remove_staged"
    /\ (~ok => disk.staged[ucmd.software] # 0)
    /\ IF ok
          THEN /\ disk' = [disk EXCEPT !.staged[ucmd.software] = 0]
               /\ upc' = "decrypt"
               /\ UNCHANGED ures
          ELSE /\ UpdReturn("failed")
               /\ UNCHANGED disk
    /\ UNCHANGED <<peer, ucmd, ulocal, ucount, uhist, prev>>
    /\ UNCHANGED <<clockVars, serverVars, buildVars, chanVars, authVars, config, mountVars, rebootVars>>

\* decrypt_encrypted_binary: `gpg --output <name> --decrypt <name>.gpg`; the
\* output is the binary the .gpg was made from.
DecryptEncryptedBinary(ok) ==
    /\ upc = "decrypt"
    /\ IF ok
          THEN /\ disk' = [disk EXCEPT !.staged[ucmd.software] = disk.gpg[ucmd.software]]
               /\ upc' = "write_json"
               /\ UNCHANGED ures
          ELSE /\ UpdReturn("failed")
               /\ UNCHANGED disk
    /\ UNCHANGED <<peer, ucmd, ulocal, ucount, uhist, prev>>
    /\ UNCHANGED <<clockVars, serverVars, buildVars, chanVars, authVars, config, mountVars, rebootVars>>

\* `tokio::fs::write(&latest_build_info_path, to_string_pretty(latest_version))`
WriteLatestBuildInfo(ok) ==
    /\ upc = "write_json"
    /\ IF ok
          THEN /\ disk' = [disk EXCEPT !.json[ucmd.software] = ToJson(ulocal.latest)]
               /\ upc' = "read_installed"
               /\ UNCHANGED ures
          ELSE /\ UpdReturn("failed")
               /\ UNCHANGED disk
    /\ UNCHANGED <<peer, ucmd, ulocal, ucount, uhist, prev>>
    /\ UNCHANGED <<clockVars, serverVars, buildVars, chanVars, authVars, config, mountVars, rebootVars>>

\* Mutation: the version check before the install is dropped.
NeedsInstall_Always(latest, installed) == TRUE

\* `if latest_version != latest_installed_version`
NeedsInstall(latest, installed) == latest # installed

\* read_latest_installed_build_info and the comparison that follows it.
ReadLatestInstalledBuildInfo(ok) ==
    /\ upc = "read_installed"
    /\ (~ok => disk.installed[ucmd.software] # NoFile)
    /\ IF ok
          THEN IF NeedsInstall(ulocal.latest, ReadBuildInfo(disk.installed[ucmd.software]))
                  THEN /\ upc' = "rename_installed"
                       /\ UNCHANGED ures
                  ELSE UpdReturn("ok")
          ELSE UpdReturn("failed")
    /\ UNCHANGED <<disk, peer, ucmd, ulocal, ucount, uhist, prev>>
    /\ UNCHANGED <<clockVars, serverVars, buildVars, chanVars, authVars, config, mountVars, rebootVars>>

(***************************************************************************)
(* UpdateManager::install_latest_software                                  *)
(***************************************************************************)

\* `if installed_build_info_path.exists() { rename(.., installed.old) }`
RenameInstalledBuildInfo(ok) ==
    /\ upc = "rename_installed"
    /\ (~ok => disk.installed[ucmd.software] # NoFile)
    /\ IF ok
          THEN /\ disk' = IF disk.installed[ucmd.software] # NoFile
                             THEN [disk EXCEPT !.installed_old[ucmd.software] = disk.installed[ucmd.software],
                                               !.installed[ucmd.software] = NoFile]
                             ELSE disk
               /\ upc' = "rename_target"
               /\ UNCHANGED ures
          ELSE /\ UpdReturn("failed")
               /\ UNCHANGED disk
    /\ UNCHANGED <<peer, ucmd, ulocal, ucount, uhist, prev>>
    /\ UNCHANGED <<clockVars, serverVars, buildVars, chanVars, authVars, config, mountVars, rebootVars>>

\* replace_binary: `if target.exists() { rename(&target, target.old) }`
ReplaceBinaryRename(ok) ==
    /\ upc = "rename_target"
    /\ (~ok => disk.target[ucmd.software] # 0)
    /\ IF ok
          THEN /\ disk' = IF disk.target[ucmd.software] # 0
                             THEN [disk EXCEPT !.target_old[ucmd.software] = disk.target[ucmd.software],
                                               !.target[ucmd.software] = 0]
                             ELSE disk
               /\ upc' = "copy"
               /\ UNCHANGED ures
          ELSE /\ UpdReturn("failed")
               /\ UNCHANGED disk
    /\ UNCHANGED <<peer, ucmd, ulocal, ucount, uhist, prev>>
    /\ UNCHANGED <<clockVars, serverVars, buildVars, chanVars, authVars, config, mountVars, rebootVars>>

\* replace_binary: `tokio::fs::copy(&binary, &target)`; fails when the
\* staged binary is not there.
ReplaceBinaryCopy(ok) ==
    /\ upc = "copy"
    /\ (ok => disk.staged[ucmd.software] # 0)
    /\ IF ok
          THEN /\ disk' = [disk EXCEPT !.target[ucmd.software] = disk.staged[ucmd.software]]
               /\ upc' = "chmod"
               /\ UNCHANGED ures
          ELSE /\ UpdReturn("failed")
               /\ UNCHANGED disk
    /\ UNCHANGED <<peer, ucmd, ulocal, ucount, uhist, prev>>
    /\ UNCHANGED <<clockVars, serverVars, buildVars, chanVars, authVars, config, mountVars, rebootVars>>

\* replace_binary: `chmod u+x`
ReplaceBinaryChmod(ok) ==
    /\ upc = "chmod"
    /\ IF ok
          THEN /\ upc' = "write_installed"
               /\ UNCHANGED ures
          ELSE UpdReturn("failed")
    /\ UNCHANGED <<disk, peer, ucmd, ulocal, ucount, uhist, prev>>
    /\ UNCHANGED <<clockVars, serverVars, buildVars, chanVars, authVars, config, mountVars, rebootVars>>

\* Mutation: the record of the version found on disk is written back.
InstalledRecord_Current(locals) == ToJson(locals.current)

\* What install_latest_software writes to <name>.json.installed.
InstalledRecord(locals) == ToJson(locals.latest)

\* `tokio::fs::write(&installed_build_info_path, ..)` and
\* `if reset_data.reset_data`.
WriteInstalledBuildInfo(ok) ==
    /\ upc = "write_installed"
    /\ IF ok
          THEN /\ disk' = [disk EXCEPT !.installed[ucmd.software] = InstalledRecord(ulocal)]
               /\ uhist' = [uhist EXCEPT !.installed = TRUE]
               /\ upc' = IF ucmd.reset_data THEN "reset_data" ELSE "latch"
               /\ UNCHANGED ures
          ELSE /\ UpdReturn("failed")
               /\ UNCHANGED <<disk, uhist>>
    /\ UNCHANGED <<peer, ucmd, ulocal, ucount, prev>>
    /\ UNCHANGED <<clockVars, serverVars, buildVars, chanVars, authVars, config, mountVars, rebootVars>>

\* reset_data returns Ok(()) to install_latest_software or to restart_backend.
AfterResetData == IF uhist.restart THEN "start_backend" ELSE "latch"

\* Mutation: the data directory is rotated for either software.
ResetDataApplies_AnySoftware(software, dir_configured) == dir_configured

\* reset_data: `if software != SoftwareOptions::Backend { return Ok(()) }`
\* and `None => return Ok(())` for backend_data_reset_dir.
ResetDataApplies(software, dir_configured) == software = "backend" /\ dir_configured

\* reset_data: the early returns and the is_dir() test.
ResetDataCheck ==
    /\ upc = "reset_data"
    /\ IF ~ResetDataApplies(ucmd.software, config.data_reset_dir)
          THEN /\ upc' = AfterResetData
               /\ UNCHANGED ures
          ELSE IF disk.data_dir = 0
                  THEN UpdReturn("failed")
                  ELSE /\ upc' = "remove_old_data"
                       /\ UNCHANGED ures
    /\ UNCHANGED <<disk, peer, ucmd, ulocal, ucount, uhist, prev>>
    /\ UNCHANGED <<clockVars, serverVars, buildVars, chanVars, authVars, config, mountVars, rebootVars>>

\* reset_data: `if old_data_dir.is_dir() { remove_dir_all }`
ResetDataRemoveOld(ok) ==
    /\ upc = "remove_old_data"
    /\ (~ok => disk.data_dir_old # 0)
    /\ IF ok
          THEN /\ disk' = [disk EXCEPT !.data_dir_old = 0]
               /\ upc' = "rename_data"
               /\ UNCHANGED ures
          ELSE /\ UpdReturn("failed")
               /\ UNCHANGED disk
    /\ UNCHANGED <<peer, ucmd, ulocal, ucount, uhist, prev>>
    /\ UNCHANGED <<clockVars, serverVars, buildVars, chanVars, authVars, config, mountVars, rebootVars>>

\* reset_data: `rename(&backend_reset_data_dir, &old_data_dir)`; fails when
\* the directory has gone meanwhile.
ResetDataRename(ok) ==
    /\ upc = "rename_data"
    /\ (ok => disk.data_dir # 0)
    /\ IF ok
          THEN /\ disk' = [disk EXCEPT !.data_dir_old = disk.data_dir, !.data_dir = 0]
               /\ upc' = AfterResetData
               /\ UNCHANGED ures
          ELSE /\ UpdReturn("failed")
               /\ UNCHANGED disk
    /\ UNCHANGED <<peer, ucmd, ulocal, ucount, uhist, prev>>
    /\ UNCHANGED <<clockVars, serverVars, buildVars, chanVars, authVars, config, mountVars, rebootVars>>

\* Mutation: reboot_now() is called whatever force_reboot says.
ForceReboot_Always(cmd) == TRUE

\* `if force_reboot`
ForceReboot(cmd) == cmd.force_reboot

\* `REBOOT_ON_NEXT_CHECK.store(true, Ordering::Relaxed)` and
\* `if force_reboot`.
StoreRebootOnNextCheck ==
    /\ upc = "latch"
    /\ REBOOT_ON_NEXT_CHECK' = TRUE
    /\ IF ForceReboot(ucmd)
          THEN /\ upc' = "reboot_now"
               /\ UNCHANGED ures
          ELSE UpdReturn("ok")
    /\ UNCHANGED <<disk, peer, ucmd, ulocal, ucount, uhist, prev>>
    /\ UNCHANGED <<reboot_required, rbchan, check_cooldown, rbpc, rbfrom, attempt, trigger>>
    /\ UNCHANGED <<clockVars, serverVars, buildVars, chanVars, authVars, config, mountVars>>

\* `self.reboot_manager_handle.reboot_now().await`
RebootNow ==
    /\ upc = "reboot_now"
    /\ RebootNowSend
    /\ IF rbpc = "stopped"
          THEN /\ UpdReturn("failed")
               /\ UNCHANGED uhist
          ELSE /\ UpdReturn("ok")
               /\ uhist' = [uhist EXCEPT !.sent = @ + 1]
    /\ UNCHANGED <<disk, peer, ucmd, ulocal, ucount, prev>>
    /\ UNCHANGED <<REBOOT_ON_NEXT_CHECK, reboot_required, check_cooldown, rbpc, rbfrom, attempt, trigger>>
    /\ UNCHANGED <<clockVars, serverVars, buildVars, chanVars, authVars, config, mountVars>>

\* The backend, once started again, creates its data directory anew.
BackendCreatesDataDir ==
    /\ upc = "idle"
    /\ disk.data_dir = 0
    /\ disk.data_gen < MaxDataGen
    /\ disk' = [disk EXCEPT !.data_dir = disk.data_gen + 1, !.data_gen = @ + 1]
    /\ UNCHANGED <<peer, upc, ucmd, ulocal, ures, ucount, uhist, prev>>
    /\ UNCHANGED <<clockVars, serverVars, buildVars, chanVars, authVars, config, mountVars, rebootVars>>

\* The update manager meets the reboot manager only in reboot_now (the send
\* into its channel); the reboot manager's own steps commute with every other
\* step of the pipeline, so they are interleaved at that point only.
RebootManagerVisible == upc = "reboot_now"

UpdNext ==
    \/ \E cmd \in Commands : UpdateSoftware(cmd)
    \/ \E ok \in BOOLEAN : ReadLatestBuildInfo(ok)
    \/ \E ok \in BOOLEAN : DownloadLatestInfo(ok)
    \/ CompareCurrent
    \/ \E ok \in BOOLEAN : DownloadLatestEncryptedBinary(ok)
    \/ \E ok \in BOOLEAN : WriteEncryptedBinary(ok)
    \/ \E ok \in BOOLEAN : ImportGpgPublicKey(ok)
    \/ \E ok \in BOOLEAN : RemovePreviousBinary(ok)
    \/ \E ok \in BOOLEAN : DecryptEncryptedBinary(ok)
    \/ \E ok \in BOOLEAN : WriteLatestBuildInfo(ok)
    \/ \E ok \in BOOLEAN : ReadLatestInstalledBuildInfo(ok)
    \/ \E ok \in BOOLEAN : RenameInstalledBuildInfo(ok)
    \/ \E ok \in BOOLEAN : ReplaceBinaryRename(ok)
    \/ \E ok \in BOOLEAN : ReplaceBinaryCopy(ok)
    \/ \E ok \in BOOLEAN : ReplaceBinaryChmod(ok)
    \/ \E ok \in BOOLEAN : WriteInstalledBuildInfo(ok)
    \/ ResetDataCheck
    \/ \E ok \in BOOLEAN : ResetDataRemoveOld(ok)
    \/ \E ok \in BOOLEAN : ResetDataRename(ok)
    \/ StoreRebootOnNextCheck
    \/ RebootNow
    \/ BackendCreatesDataDir
    \/ \E k \in Kinds : PublishEncryptedBinary(k)
    \/ \E k \in Kinds : PublishBuildInfo(k)
    \/ RebootManagerVisible /\ RbRecvMessage
    \/ RebootManagerVisible /\ \E success \in BOOLEAN : RbSudoReboot(success)
    \/ RebootManagerVisible /\ RbQuit
    \/ RebootManagerVisible /\ Quit

(***************************************************************************)
(* UpdateManager::restart_backend                                          *)
(***************************************************************************)
\* handle_message calls restart_backend for a RestartBackend message.
RestartBackend(reset_data) ==
    /\ upc = "idle"
    /\ ucount < MaxCommands
    /\ ucount' = ucount + 1
    /\ ucmd' = [software |-> "backend", force_reboot |-> FALSE, reset_data |-> reset_data]
    /\ upc' = "stop_backend"
    /\ ures' = "running"
    /\ ulocal' = NoLocals
    /\ prev' = [valid |-> ucount > 0, cmd |-> ucmd, res |-> ures, latest |-> ulocal.latest,
                hist |-> uhist]
    /\ uhist' = [NoHistory EXCEPT !.pre = disk, !.latch0 = REBOOT_ON_NEXT_CHECK,
                                  !.restart = TRUE]
    /\ UNCHANGED <<disk, peer>>
    /\ UNCHANGED <<clockVars, serverVars, buildVars, chanVars, authVars, config, mountVars, rebootVars>>

\* Mutation: a failed stop-backend is only logged.
AfterStopBackend_BestEffort(ok, reset_data) ==
    IF reset_data THEN "reset_data" ELSE "start_backend"

\* `stop_backend().await.change_context(StopBackendFailed)?` and
\* `if reset_data.reset_data`.
AfterStopBackend(ok, reset_data) ==
    IF ~ok THEN "idle"
    ELSE IF reset_data THEN "reset_data" ELSE "start_backend"

\* BackendController::stop_backend: `sudo stop-backend.sh` exits zero or not.
StopBackend(ok) ==
    /\ upc = "stop_backend"
    /\ uhist' = [uhist EXCEPT !.stop = IF ok THEN "ok" ELSE "failed"]
    /\ IF AfterStopBackend(ok, ucmd.reset_data) = "idle"
          THEN UpdReturn("failed")
          ELSE /\ upc' = AfterStopBackend(ok, ucmd.reset_data)
               /\ UNCHANGED ures
    /\ UNCHANGED <<disk, peer, ucmd, ulocal, ucount, prev>>
    /\ UNCHANGED <<clockVars, serverVars, buildVars, chanVars, authVars, config, mountVars, rebootVars>>

\* BackendController::start_backend: `sudo start-backend.sh` exits zero or
\* not; its result is the result of restart_backend.
StartBackend(ok) ==
    /\ upc = "start_backend"
    /\ uhist' = [uhist EXCEPT !.start = IF ok THEN "ok" ELSE "failed"]
    /\ UpdReturn(IF ok THEN "ok" ELSE "failed")
    /\ UNCHANGED <<disk, peer, ucmd, ulocal, ucount, prev>>
    /\ UNCHANGED <<clockVars, serverVars, buildVars, chanVars, authVars, config, mountVars, rebootVars>>

RestartNext ==
    \/ \E reset_data \in BOOLEAN : RestartBackend(reset_data)
    \/ \E ok \in BOOLEAN : StopBackend(ok)
    \/ ResetDataCheck
    \/ \E ok \in BOOLEAN : ResetDataRemoveOld(ok)
    \/ \E ok \in BOOLEAN : ResetDataRename(ok)
    \/ \E ok \in BOOLEAN : StartBackend(ok)
    \/ BackendCreatesDataDir

(***************************************************************************)
(* AppServer::run: the state its tasks start in                            *)
(***************************************************************************)
Managers == {"build", "reboot", "update"}

NoServerHistory ==
    [start |-> "none", start_mode |-> "NotMounted", stop |-> "none", close |-> "none",
     close_mode |-> "NotMounted"]

ServerInit ==
    /\ sigterm = FALSE
    /\ svpc = "mount"
    /\ backend_installed = FALSE
    /\ ltask = "accept"
    /\ conns = {}
    /\ nconn = 0
    /\ ltask2 = "none"
    /\ mtask = [m \in Managers |-> "select"]
    /\ svhist = NoServerHistory

(***************************************************************************)
(* RebootManager::sleep_until_reboot_check, get_local_time and             *)
(* get_utc_offset_hours                                                    *)
(***************************************************************************)
\* `Duration::from_secs(24 * 60 * 60)`; times are counted in seconds.
SecondsPerDay == 24 * 60 * 60

SecondsPerHour == 60 * 60

\* Outputs of `date +%z`: a sign, two digits of hours, two of minutes.
DateOutputs ==
    {<<s, h1, h2, m1, m2>> : s \in {"+", "-"}, h1 \in {"0", "1", "9"},
                             h2 \in {"0", "2", "3", "5"}, m1 \in {"0", "3"}, m2 \in {"0"}}

\* OffsetDateTime::now_utc(): seconds since the midnight two days before.
UtcTimes ==
    {2 * SecondsPerDay + t : t \in {0, 1, 43199, 43200, 45000, 45001, 86399}}

\* [reboot_if_needed] time: TimeValue {hours: u8, minutes: u8}.
RebootTimes == [hours : {0, 12, 23, 24}, minutes : {0, 30, 59}]

ClockInit ==
    /\ date_z = <<"+", "0", "0", "0", "0">>
    /\ utc_now = 2 * SecondsPerDay
    /\ reboot_at = [hours |-> 0, minutes |-> 0]
    /\ cpc = "date"
    /\ cres = "running"
    /\ utc_offset_hours = 0
    /\ local_now = 0
    /\ sleep_for = 0

ClockFrame ==
    UNCHANGED <<chanVars, authVars, config, mountVars, rebootVars, updVars, buildVars,
                serverVars>>

DigitValue ==
    ("0" :> 0) @@ ("1" :> 1) @@ ("2" :> 2) @@ ("3" :> 3) @@ ("4" :> 4) @@
    ("5" :> 5) @@ ("6" :> 6) @@ ("7" :> 7) @@ ("8" :> 8) @@ ("9" :> 9)

\* str::trim_start_matches('0')
RECURSIVE trim_start_matches_zero(_)
trim_start_matches_zero(str) ==
    IF str # <<>> /\ Head(str) = "0" THEN trim_start_matches_zero(Tail(str)) ELSE str

\* The decimal value of a string of digits; -1 when a character is no digit.
RECURSIVE DecimalValue(_, _)
DecimalValue(str, acc) ==
    IF str = <<>> THEN acc
    ELSE IF Head(str) \notin DOMAIN DigitValue THEN -1
    ELSE DecimalValue(Tail(str), 10 * acc + DigitValue[Head(str)])

\* str::parse::<i8>(): an optional sign, at least one digit, a value in
\* -128..127.
parse_i8(str) ==
    LET signed == str # <<>> /\ Head(str) \in {"+", "-"}
        digits == IF signed THEN Tail(str) ELSE str
        value == DecimalValue(digits, 0)
        result == IF signed /\ Head(str) = "-" THEN 0 - value ELSE value
    IN  IF digits = <<>> \/ value < 0 \/ result < -128 \/ result > 127
           THEN [ok |-> FALSE, value |-> 0]
           ELSE [ok |-> TRUE, value |-> result]

\* Mutation: the minutes are parsed together with the hours.
HoursDigits_WithMinutes(offset) == SubSeq(offset, 2, Len(offset))

\* `offset.chars().skip(1).take(2).collect::<String>()`
HoursDigits(offset) ==
    SubSeq(offset, 2, IF Len(offset) < 3 THEN Len(offset) ELSE 3)

\* get_utc_offset_hours, from the output of `date +%z` on.
get_utc_offset_hours(offset) ==
    LET multiplier == IF offset # <<>> /\ offset[1] = "-" THEN -1 ELSE 1
        hours_number_str == trim_start_matches_zero(HoursDigits(offset))
        hours == IF hours_number_str = <<>>
                    THEN [ok |-> TRUE, value |-> 0]
                    ELSE parse_i8(hours_number_str)
    IN  [ok |-> hours.ok, value |-> hours.value * multiplier]

\* get_utc_offset_hours: `date +%z` runs; CommandFailed on a non-zero exit,
\* InvalidOutput when the hours do not parse.
GetUtcOffsetHours(success) ==
    /\ cpc = "date"
    /\ IF ~success
          THEN /\ cpc' = "done"
               /\ cres' = "CommandFailed"
               /\ UNCHANGED utc_offset_hours
          ELSE IF get_utc_offset_hours(date_z).ok
                  THEN /\ cpc' = "to_offset"
                       /\ utc_offset_hours' = get_utc_offset_hours(date_z).value
                       /\ UNCHANGED cres
                  ELSE /\ cpc' = "done"
                       /\ cres' = "InvalidOutput"
                       /\ UNCHANGED utc_offset_hours
    /\ UNCHANGED <<date_z, utc_now, reboot_at, local_now, sleep_for>>
    /\ ClockFrame

\* get_local_time: `now.to_offset(UtcOffset::from_hms(offset, 0, 0)?)`; the
\* offsets met here are at most 15 hours or at least 90.
GetLocalTime ==
    /\ cpc = "to_offset"
    /\ IF utc_offset_hours \in -23..23
          THEN /\ local_now' = utc_now + utc_offset_hours * SecondsPerHour
               /\ cpc' = "target"
               /\ UNCHANGED cres
          ELSE /\ cpc' = "done"
               /\ cres' = "TimeError"
               /\ UNCHANGED local_now
    /\ UNCHANGED <<date_z, utc_now, reboot_at, utc_offset_hours, sleep_for>>
    /\ ClockFrame

\* OffsetDateTime::replace_time: the same date and offset, the given time of
\* day.
replace_time(date_time, time) == date_time - (date_time % SecondsPerDay) + time

\* Mutation: a target that is now counts as later today.
LaterToday_OrNow(target_date_time, now) == target_date_time >= now

\* `if target_date_time > now`
LaterToday(target_date_time, now) == target_date_time > now

\* The duration sleep_until_reboot_check sleeps for.
SleepDuration(now, target_time) ==
    LET target_date_time == replace_time(now, target_time)
    IN  IF LaterToday(target_date_time, now)
           THEN target_date_time - now
           ELSE LET tomorrow == now + SecondsPerDay
                    tomorrow_target_date_time == replace_time(tomorrow, target_time)
                IN  tomorrow_target_date_time - now

\* sleep_until_reboot_check after get_local_time:
\* `Time::from_hms(reboot.time.hours, reboot.time.minutes, 0)?` and the
\* duration.
CalculateSleepTime ==
    /\ cpc = "target"
    /\ IF reboot_at.hours > 23 \/ reboot_at.minutes > 59
          THEN /\ cpc' = "done"
               /\ cres' = "TimeError"
               /\ UNCHANGED sleep_for
          ELSE /\ sleep_for' = SleepDuration(local_now, reboot_at.hours * SecondsPerHour
                                                            + reboot_at.minutes * 60)
               /\ cpc' = "sleep"
               /\ UNCHANGED cres
    /\ UNCHANGED <<date_z, utc_now, reboot_at, utc_offset_hours, local_now>>
    /\ ClockFrame

\* `sleep(duration.unsigned_abs()).await; Ok(())`
SleepElapsed ==
    /\ cpc = "sleep"
    /\ cpc' = "done"
    /\ cres' = "ok"
    /\ UNCHANGED <<date_z, utc_now, reboot_at, utc_offset_hours, local_now, sleep_for>>
    /\ ClockFrame

ClockNext ==
    \/ \E success \in BOOLEAN : GetUtcOffsetHours(success)
    \/ GetLocalTime
    \/ CalculateSleepTime
    \/ SleepElapsed

(***************************************************************************)
(* validate_path                                                           *)
(***************************************************************************)
\* const PATH_CHARACTERS_WHITELIST
PATH_CHARACTERS_WHITELIST ==
    {"A", "B", "C", "D", "E", "F", "G", "H", "I", "J", "K", "L", "M", "N", "O", "P", "Q",
     "R", "S", "T", "U", "V", "W", "X", "Y", "Z",
     "a", "b", "c", "d", "e", "f", "g", "h", "i", "j", "k", "l", "m", "n", "o", "p", "q",
     "r", "s", "t", "u", "v", "w", "x", "y", "z",
     "0", "1", "2", "3", "4", "5", "6", "7", "8", "9", "-", "_", ".", "/"}

\* whitelist_chars: the characters of the input that are not in the
\* whitelist, in order.
whitelist_chars(input, whitelist) == SelectSeq(input, LAMBDA c : c \notin whitelist)

\* Mutation: relative paths pass.
is_absolute_Any(input) == TRUE

\* Path::is_absolute on Unix: the path begins with the root.
is_absolute(input) == Len(input) > 0 /\ input[1] = "/"

\* fn validate_path
validate_path(input) ==
    IF ~is_absolute(input)
       THEN "InvalidKeyPath"
       ELSE IF whitelist_chars(input, PATH_CHARACTERS_WHITELIST) # <<>>
               THEN "InvalidKeyPath"
               ELSE "Ok"

\* The characters key paths are made of here: the ends of every range of
\* the whitelist, its punctuation, and characters outside it.
PathChars == {"A", "Z", "a", "z", "0", "9", "-", "_", ".", "/", " ", ";", "~", "$"}

RECURSIVE PathsOfLen(_)
PathsOfLen(n) ==
    IF n = 0 THEN {<<>>}
    ELSE {Append(p, c) : p \in PathsOfLen(n - 1), c \in PathChars}

KeyPaths == UNION {PathsOfLen(n) : n \in 0..MaxPathLen}

\* download_key: None
NoKey == <<"None">>

(***************************************************************************)
(* BuildManager::git_refresh_if_needed                                     *)
(***************************************************************************)
\* A file a failed copy left half written.
Truncated == -1

NoLatest == [bin |-> 0, gpg |-> 0, json |-> NoFile]

NoBuildLocals ==
    [latest_build_commit_sha |-> 0, current_commit_sha |-> 0,
     entry_created |-> FALSE, entry |-> NoLatest, build_info |-> DefaultBuildInfo]

NoBuildHistory ==
    [latest |-> [k \in Kinds |-> NoLatest], history |-> [k \in Kinds |-> 0],
     git |-> FALSE, script |-> FALSE, cargo |-> FALSE, skipped |-> FALSE, pushed |-> FALSE,
     latest_copy |-> FALSE]

NoBuildPrev == [valid |-> FALSE, software |-> "manager", res |-> "none", latest_copy |-> FALSE]

BuildInit ==
    /\ bkey = [k \in Kinds |-> NoKey]
    /\ bscript = FALSE
    /\ origin = [k \in Kinds |-> 1]
    /\ repo = [k \in Kinds |-> 0]
    /\ wtarget = [k \in Kinds |-> 0]
    /\ latest_dir = [k \in Kinds |-> NoLatest]
    /\ history_dir = [k \in Kinds |-> 0]
    /\ bpc = "idle"
    /\ bcmd = "manager"
    /\ blocal = NoBuildLocals
    /\ bres = "none"
    /\ bcount = 0
    /\ bhist = NoBuildHistory
    /\ bprev = NoBuildPrev

\* git_refresh_if_needed returns: Ok(()) or the first error.
BuildReturn(result) ==
    /\ bpc' = "idle"
    /\ bres' = result

\* What the build steps leave alone besides the build manager's state.
BuildFrame ==
    UNCHANGED <<clockVars, serverVars, chanVars, authVars, config, mountVars, rebootVars, updVars, bkey,
                bscript>>

\* handle_message: BuildNewBackendVersion / BuildNewManagerVersion.
BuildNewVersion(k) ==
    /\ bpc = "idle"
    /\ bcount < MaxBuilds
    /\ bcount' = bcount + 1
    /\ bcmd' = k
    /\ bpc' = "validate"
    /\ bres' = "running"
    /\ blocal' = NoBuildLocals
    /\ bprev' = [valid |-> bcount > 0, software |-> bcmd, res |-> bres,
                 latest_copy |-> bhist.latest_copy]
    /\ bhist' = [NoBuildHistory EXCEPT !.latest = latest_dir, !.history = history_dir]
    /\ UNCHANGED <<origin, repo, wtarget, latest_dir, history_dir>>
    /\ BuildFrame

\* `if let Some(download_key) = download_key { validate_path(&download_key)?; }`
ValidateKeyPath ==
    /\ bpc = "validate"
    /\ IF bkey[bcmd] # NoKey /\ validate_path(bkey[bcmd]) # "Ok"
          THEN BuildReturn("InvalidKeyPath")
          ELSE /\ bpc' = "clone"
               /\ UNCHANGED bres
    /\ UNCHANGED <<origin, repo, wtarget, latest_dir, history_dir, bcmd, blocal, bcount, bhist,
                   bprev>>
    /\ BuildFrame

\* The branch at the git server gets a new commit.  The build manager looks
\* at the server in clone and pull only, so this is interleaved there.
PushCommit(k) ==
    /\ bpc \in {"clone", "pull"}
    /\ bcmd = k
    /\ origin[k] < MaxCommit
    /\ origin' = [origin EXCEPT ![k] = @ + 1]
    /\ bhist' = [bhist EXCEPT !.pushed = TRUE]
    /\ UNCHANGED <<repo, wtarget, latest_dir, history_dir, bpc, bcmd, blocal, bres, bcount, bprev>>
    /\ BuildFrame

\* git_clone_repository_if_needed
GitCloneRepositoryIfNeeded(ok) ==
    /\ bpc = "clone"
    /\ (~ok => repo[bcmd] = 0)
    /\ IF repo[bcmd] # 0
          THEN /\ bpc' = "pull"
               /\ UNCHANGED <<repo, bres, bhist>>
          ELSE /\ bhist' = [bhist EXCEPT !.git = TRUE]
               /\ IF ok
                     THEN /\ repo' = [repo EXCEPT ![bcmd] = origin[bcmd]]
                          /\ bpc' = "pull"
                          /\ UNCHANGED bres
                     ELSE /\ BuildReturn("failed")
                          /\ UNCHANGED repo
    /\ UNCHANGED <<origin, wtarget, latest_dir, history_dir, bcmd, blocal, bcount, bprev>>
    /\ BuildFrame

\* git_pull_repository
GitPullRepository(ok) ==
    /\ bpc = "pull"
    /\ bhist' = [bhist EXCEPT !.git = TRUE]
    /\ IF ok
          THEN /\ repo' = [repo EXCEPT ![bcmd] = origin[bcmd]]
               /\ bpc' = "read_latest"
               /\ UNCHANGED bres
          ELSE /\ BuildReturn("failed")
               /\ UNCHANGED repo
    /\ UNCHANGED <<origin, wtarget, latest_dir, history_dir, bcmd, blocal, bcount, bprev>>
    /\ BuildFrame

\* get_latest_build_commit_sha: "" without latest/<binary>.json; reading or
\* parsing an existing file may fail, and parsing a half written one does.
GetLatestBuildCommitSha(ok) ==
    /\ bpc = "read_latest"
    /\ (~ok => latest_dir[bcmd].json # NoFile)
    /\ (ok => latest_dir[bcmd].json # <<Truncated>>)
    /\ IF ok
          THEN /\ blocal' = [blocal EXCEPT !.latest_build_commit_sha =
                                 ReadBuildInfo(latest_dir[bcmd].json).commit_sha]
               /\ bpc' = "rev_parse"
               /\ UNCHANGED bres
          ELSE /\ BuildReturn("failed")
               /\ UNCHANGED blocal
    /\ UNCHANGED <<origin, repo, wtarget, latest_dir, history_dir, bcmd, bcount, bhist, bprev>>
    /\ BuildFrame

\* git_get_commit_sha: `git rev-parse HEAD`
GitGetCommitSha(ok) ==
    /\ bpc = "rev_parse"
    /\ bhist' = [bhist EXCEPT !.git = TRUE]
    /\ IF ok
          THEN /\ blocal' = [blocal EXCEPT !.current_commit_sha = repo[bcmd]]
               /\ bpc' = "compare"
               /\ UNCHANGED bres
          ELSE /\ BuildReturn("failed")
               /\ UNCHANGED blocal
    /\ UNCHANGED <<origin, repo, wtarget, latest_dir, history_dir, bcmd, bcount, bprev>>
    /\ BuildFrame

\* Mutation: every command builds.
NoNewCommits_Never(latest_build_commit_sha, current_commit_sha) == FALSE

\* `if latest_build_commit_sha == current_commit_sha`
NoNewCommits(latest_build_commit_sha, current_commit_sha) ==
    latest_build_commit_sha = current_commit_sha

\* The early return of git_refresh_if_needed and
\* `if let Some(script) = pre_build_script`.
CompareCommitSha ==
    /\ bpc = "compare"
    /\ IF NoNewCommits(blocal.latest_build_commit_sha, blocal.current_commit_sha)
          THEN /\ BuildReturn("ok")
               /\ bhist' = [bhist EXCEPT !.skipped = TRUE]
          ELSE /\ bpc' = IF bscript THEN "script" ELSE "cargo"
               /\ UNCHANGED <<bres, bhist>>
    /\ UNCHANGED <<origin, repo, wtarget, latest_dir, history_dir, bcmd, blocal, bcount, bprev>>
    /\ BuildFrame

\* run_pre_build_script
RunPreBuildScript(ok) ==
    /\ bpc = "script"
    /\ bhist' = [bhist EXCEPT !.script = TRUE]
    /\ IF ok
          THEN /\ bpc' = "cargo"
               /\ UNCHANGED bres
          ELSE BuildReturn("failed")
    /\ UNCHANGED <<origin, repo, wtarget, latest_dir, history_dir, bcmd, blocal, bcount, bprev>>
    /\ BuildFrame

\* cargo_build: `cargo build --bin <binary> --release`
CargoBuild(ok) ==
    /\ bpc = "cargo"
    /\ bhist' = [bhist EXCEPT !.cargo = TRUE]
    /\ IF ok
          THEN /\ wtarget' = [wtarget EXCEPT ![bcmd] = repo[bcmd]]
               /\ bpc' = "build_info"
               /\ UNCHANGED bres
          ELSE /\ BuildReturn("failed")
               /\ UNCHANGED wtarget
    /\ UNCHANGED <<origin, repo, latest_dir, history_dir, bcmd, blocal, bcount, bprev>>
    /\ BuildFrame

\* cargo_build: `<binary> --build-info`
GetBuildInfoOutput(ok) ==
    /\ bpc = "build_info"
    /\ IF ok
          THEN /\ bpc' = "create_dir"
               /\ UNCHANGED bres
          ELSE BuildReturn("failed")
    /\ UNCHANGED <<origin, repo, wtarget, latest_dir, history_dir, bcmd, blocal, bcount, bhist,
                   bprev>>
    /\ BuildFrame

(***************************************************************************)
(* BuildManager::copy_and_sign_binary                                      *)
(***************************************************************************)
\* `Self::create_dir(&build_dir_for_current)`: a failure is only logged,
\* and the function goes on without the directory.
CreateHistoryEntry(ok) ==
    /\ bpc = "create_dir"
    /\ history_dir' = [history_dir EXCEPT ![bcmd] = IF ok THEN @ + 1 ELSE @]
    /\ blocal' = [blocal EXCEPT !.entry_created = ok]
    /\ bpc' = "history_bin"
    /\ UNCHANGED <<origin, repo, wtarget, latest_dir, bcmd, bres, bcount, bhist, bprev>>
    /\ BuildFrame

\* `tokio::fs::copy(&binary_path, target_binary)`
CopyBinaryToHistory(ok) ==
    /\ bpc = "history_bin"
    /\ (ok => blocal.entry_created)
    /\ IF ok
          THEN /\ blocal' = [blocal EXCEPT !.entry.bin = wtarget[bcmd]]
               /\ bpc' = "gpg_key"
               /\ UNCHANGED bres
          ELSE /\ BuildReturn("failed")
               /\ UNCHANGED blocal
    /\ UNCHANGED <<origin, repo, wtarget, latest_dir, history_dir, bcmd, bcount, bhist, bprev>>
    /\ BuildFrame

\* `gpg --list-secret-keys` and, without a key, `gpg --quick-generate-key`
GpgSecretKey(ok) ==
    /\ bpc = "gpg_key"
    /\ IF ok
          THEN /\ bpc' = "gpg_encrypt"
               /\ UNCHANGED bres
          ELSE BuildReturn("failed")
    /\ UNCHANGED <<origin, repo, wtarget, latest_dir, history_dir, bcmd, blocal, bcount, bhist,
                   bprev>>
    /\ BuildFrame

\* `gpg --output <binary>.gpg --encrypt --recipient .. --sign <binary>` in
\* the history entry.
GpgEncryptAndSign(ok) ==
    /\ bpc = "gpg_encrypt"
    /\ IF ok
          THEN /\ blocal' = [blocal EXCEPT !.entry.gpg = blocal.entry.bin]
               /\ bpc' = "info_sha"
               /\ UNCHANGED bres
          ELSE /\ BuildReturn("failed")
               /\ UNCHANGED blocal
    /\ UNCHANGED <<origin, repo, wtarget, latest_dir, history_dir, bcmd, bcount, bhist, bprev>>
    /\ BuildFrame

\* `BuildInfo { commit_sha: Self::git_get_commit_sha(..).await?, .. }`
MakeBuildInfo(ok) ==
    /\ bpc = "info_sha"
    /\ IF ok
          THEN /\ blocal' = [blocal EXCEPT !.build_info = BuildInfoOf(bcmd, repo[bcmd])]
               /\ bpc' = "write_info"
               /\ UNCHANGED bres
          ELSE /\ BuildReturn("failed")
               /\ UNCHANGED blocal
    /\ UNCHANGED <<origin, repo, wtarget, latest_dir, history_dir, bcmd, bcount, bhist, bprev>>
    /\ BuildFrame

\* `tokio::fs::write(&build_info_path, to_string_pretty(&build_info))`
WriteBuildInfo(ok) ==
    /\ bpc = "write_info"
    /\ IF ok
          THEN /\ blocal' = [blocal EXCEPT !.entry.json = ToJson(blocal.build_info)]
               /\ bpc' = "latest_bin"
               /\ UNCHANGED bres
          ELSE /\ BuildReturn("failed")
               /\ UNCHANGED blocal
    /\ UNCHANGED <<origin, repo, wtarget, latest_dir, history_dir, bcmd, bcount, bhist, bprev>>
    /\ BuildFrame

\* tokio::fs::copy ends in one of three ways: the destination holds the
\* source; the copy failed before the destination was opened; the copy
\* failed after the destination was truncated.
CopyOutcomes == {"ok", "failed", "partial"}

\* The destination after a copy that ended with `outcome`.
CopyResult(outcome, source, old, truncated) ==
    IF outcome = "ok" THEN source
    ELSE IF outcome = "partial" THEN truncated
    ELSE old

\* `tokio::fs::copy(&binary_path, latest_dir.join(binary))`
CopyBinaryToLatest(outcome) ==
    /\ bpc = "latest_bin"
    /\ latest_dir' = [latest_dir EXCEPT ![bcmd].bin =
                          CopyResult(outcome, wtarget[bcmd], @, Truncated)]
    /\ bhist' = [bhist EXCEPT !.latest_copy = TRUE]
    /\ IF outcome = "ok"
          THEN /\ bpc' = "latest_gpg"
               /\ UNCHANGED bres
          ELSE BuildReturn("failed")
    /\ UNCHANGED <<origin, repo, wtarget, history_dir, bcmd, blocal, bcount, bprev>>
    /\ BuildFrame

\* `tokio::fs::copy(&signature_path, latest_dir.join(&signature_file_name))`
CopyEncryptedBinaryToLatest(outcome) ==
    /\ bpc = "latest_gpg"
    /\ latest_dir' = [latest_dir EXCEPT ![bcmd].gpg =
                          CopyResult(outcome, blocal.entry.gpg, @, Truncated)]
    /\ IF outcome = "ok"
          THEN /\ bpc' = "latest_json"
               /\ UNCHANGED bres
          ELSE BuildReturn("failed")
    /\ UNCHANGED <<origin, repo, wtarget, history_dir, bcmd, blocal, bcount, bhist, bprev>>
    /\ BuildFrame

\* `tokio::fs::copy(&build_info_path, latest_dir.join(&build_info_file))`
CopyBuildInfoToLatest(outcome) ==
    /\ bpc = "latest_json"
    /\ latest_dir' = [latest_dir EXCEPT ![bcmd].json =
                          CopyResult(outcome, blocal.entry.json, @, <<Truncated>>)]
    /\ IF outcome = "ok"
          THEN BuildReturn("ok")
          ELSE BuildReturn("failed")
    /\ UNCHANGED <<origin, repo, wtarget, history_dir, bcmd, blocal, bcount, bhist, bprev>>
    /\ BuildFrame

BuildNext ==
    \/ \E k \in Kinds : BuildNewVersion(k)
    \/ ValidateKeyPath
    \/ \E k \in Kinds : PushCommit(k)
    \/ \E ok \in BOOLEAN : GitCloneRepositoryIfNeeded(ok)
    \/ \E ok \in BOOLEAN : GitPullRepository(ok)
    \/ \E ok \in BOOLEAN : GetLatestBuildCommitSha(ok)
    \/ \E ok \in BOOLEAN : GitGetCommitSha(ok)
    \/ CompareCommitSha
    \/ \E ok \in BOOLEAN : RunPreBuildScript(ok)
    \/ \E ok \in BOOLEAN : CargoBuild(ok)
    \/ \E ok \in BOOLEAN : GetBuildInfoOutput(ok)
    \/ \E ok \in BOOLEAN : CreateHistoryEntry(ok)
    \/ \E ok \in BOOLEAN : CopyBinaryToHistory(ok)
    \/ \E ok \in BOOLEAN : GpgSecretKey(ok)
    \/ \E ok \in BOOLEAN : GpgEncryptAndSign(ok)
    \/ \E ok \in BOOLEAN : MakeBuildInfo(ok)
    \/ \E ok \in BOOLEAN : WriteBuildInfo(ok)
    \/ \E outcome \in CopyOutcomes : CopyBinaryToLatest(outcome)
    \/ \E outcome \in CopyOutcomes : CopyEncryptedBinaryToLatest(outcome)
    \/ \E outcome \in CopyOutcomes : CopyBuildInfoToLatest(outcome)

\* The build node: one key path, configured for one software or for both,
\* and the pre-build scripts configured or not.
InitBuild ==
    /\ ChanInit
    /\ AuthInit
    /\ config = DefaultConfig
    /\ MountInit
    /\ storage_available
    /\ RebootInit
    /\ UpdInit
    /\ BuildInit!3 /\ BuildInit!4 /\ BuildInit!5 /\ BuildInit!6 /\ BuildInit!7 /\ BuildInit!8
    /\ BuildInit!9 /\ BuildInit!10 /\ BuildInit!11 /\ BuildInit!12 /\ BuildInit!13
    /\ BuildInit!14
    /\ ServerInit
    /\ ClockInit
    /\ bscript \in BOOLEAN
    /\ \E p \in KeyPaths \cup {NoKey} :
           bkey \in {[k \in Kinds |-> p], [k \in Kinds |-> IF k = "backend" THEN p ELSE NoKey]}

SpecBuild == InitBuild /\ [][BuildNext]_vars

(***************************************************************************)
(* AppServer::run: startup after the mount loop, and shutdown              *)
(***************************************************************************)
\* What the steps of AppServer::run leave alone outside the supervisor.
ServerFrame == UNCHANGED <<authVars, config, rebootVars, updVars, buildVars, clockVars>>

ChanUntouched ==
    UNCHANGED <<message_storage, mutex, wake, spc, sres, rpc, inFlight, sdrop, lastOutcome>>

\* SIGTERM or SIGINT arrives.
SignalArrives ==
    /\ ~sigterm
    /\ svpc \notin {"done", "returned"}
    /\ sigterm' = TRUE
    /\ UNCHANGED <<svpc, backend_installed, ltask, conns, nconn, ltask2, mtask, svhist>>
    /\ UNCHANGED <<chanVars, mountVars>>
    /\ ServerFrame

\* The mount loop was left with `break`, or there is no [secure_storage].
MountLoopLeft ==
    /\ svpc = "mount"
    /\ mpc = "done"
    /\ svpc' = "create_dir"
    /\ UNCHANGED <<sigterm, backend_installed, ltask, conns, nconn, ltask2, mtask, svhist>>
    /\ UNCHANGED <<chanVars, mountVars>>
    /\ ServerFrame

\* A task of the runtime that is dropped with it.
Aborted(pc) == IF pc \in {"stopped", "done", "none"} THEN pc ELSE "aborted"

\* `return` inside the mount loop: run() ends, its locals are dropped, among
\* them the quit broadcaster; block_on returns in main and the runtime is
\* dropped, and with it every task that has not ended.
ReturnFromMountLoop ==
    /\ svpc = "mount"
    /\ mpc = "aborted"
    /\ svpc' = "returned"
    /\ quit' = TRUE
    /\ ltask' = Aborted(ltask)
    /\ ltask2' = Aborted(ltask2)
    /\ conns' = {}
    /\ mtask' = [m \in Managers |-> Aborted(mtask[m])]
    /\ UNCHANGED <<sigterm, backend_installed, nconn, svhist>>
    /\ ChanUntouched
    /\ UNCHANGED mountVars
    /\ ServerFrame

\* `if !self.config.storage_dir().exists() { create_dir }`: the result is
\* only logged.
CreateStorageDir ==
    /\ svpc = "create_dir"
    /\ svpc' = "start_backend"
    /\ UNCHANGED <<sigterm, backend_installed, ltask, conns, nconn, ltask2, mtask, svhist>>
    /\ UNCHANGED <<chanVars, mountVars>>
    /\ ServerFrame

\* "Start backend if it is installed": start-backend exits zero or not, and
\* the result is only logged.
StartBackendAtStartup(ok) ==
    /\ svpc = "start_backend"
    /\ IF config.update_provider /\ backend_installed
          THEN svhist' = [svhist EXCEPT !.start = IF ok THEN "ok" ELSE "failed",
                                        !.start_mode = mount_mode]
          ELSE /\ ok
               /\ UNCHANGED svhist
    /\ svpc' = "wait_signal"
    /\ UNCHANGED <<sigterm, backend_installed, ltask, conns, nconn, ltask2, mtask>>
    /\ UNCHANGED <<chanVars, mountVars>>
    /\ ServerFrame

\* `Self::wait_quit_signal(..).await; drop(server_quit_handle);`
QuitStarted ==
    /\ svpc = "wait_signal"
    /\ sigterm
    /\ quit' = TRUE
    /\ svpc' = "join_server_task1"
    /\ UNCHANGED <<sigterm, backend_installed, ltask, conns, nconn, ltask2, mtask, svhist>>
    /\ ChanUntouched
    /\ UNCHANGED mountVars
    /\ ServerFrame

\* `server_task1.await`
JoinServerTask1 ==
    /\ svpc = "join_server_task1"
    /\ ltask = "done"
    /\ svpc' = "join_server_task2"
    /\ UNCHANGED <<sigterm, backend_installed, ltask, conns, nconn, ltask2, mtask, svhist>>
    /\ UNCHANGED <<chanVars, mountVars>>
    /\ ServerFrame

\* `if let Some(server_task2) = server_task2 { server_task2.await }`
JoinServerTask2 ==
    /\ svpc = "join_server_task2"
    /\ ltask2 \in {"none", "done"}
    /\ svpc' = "wait_quit_build"
    /\ UNCHANGED <<sigterm, backend_installed, ltask, conns, nconn, ltask2, mtask, svhist>>
    /\ UNCHANGED <<chanVars, mountVars>>
    /\ ServerFrame

\* The three wait_quit() calls, in the order of the source.
WaitQuitPc(m) ==
    IF m = "build" THEN "wait_quit_build"
    ELSE IF m = "reboot" THEN "wait_quit_reboot" ELSE "wait_quit_update"

AfterWaitQuit(m) ==
    IF m = "build" THEN "wait_quit_reboot"
    ELSE IF m = "reboot" THEN "wait_quit_update" ELSE "stop_backend"

\* `<manager>_quit_handle.wait_quit().await`
WaitQuit(m) ==
    /\ svpc = WaitQuitPc(m)
    /\ mtask[m] = "stopped"
    /\ svpc' = AfterWaitQuit(m)
    /\ UNCHANGED <<sigterm, backend_installed, ltask, conns, nconn, ltask2, mtask, svhist>>
    /\ UNCHANGED <<chanVars, mountVars>>
    /\ ServerFrame

\* Mutation: a failed stop-backend ends run().
AfterStopAtQuit_Return(ok) == IF ok THEN "unmount" ELSE "done"

\* Both arms of `match .. stop_backend().await` only log.
AfterStopAtQuit(ok) == "unmount"

\* `if self.config.software_update_provider().is_some() { stop_backend }`
StopBackendAtQuit(ok) ==
    /\ svpc = "stop_backend"
    /\ IF config.update_provider
          THEN /\ svhist' = [svhist EXCEPT !.stop = IF ok THEN "ok" ELSE "failed"]
               /\ svpc' = AfterStopAtQuit(ok)
          ELSE /\ ok
               /\ svpc' = "unmount"
               /\ UNCHANGED svhist
    /\ UNCHANGED <<sigterm, backend_installed, ltask, conns, nconn, ltask2, mtask>>
    /\ UNCHANGED <<chanVars, mountVars>>
    /\ ServerFrame

\* unmount_if_needed: nothing to do without the availability-check path;
\* otherwise close-encryption exits zero or not.  The result is only logged.
UnmountIfNeeded(ok) ==
    /\ svpc = "unmount"
    /\ IF config.secure_storage /\ storage_available
          THEN /\ svhist' = [svhist EXCEPT !.close = IF ok THEN "ok" ELSE "failed",
                                           !.close_mode = mount_mode]
               /\ storage_available' = ~ok
          ELSE /\ ok
               /\ UNCHANGED <<svhist, storage_available>>
    /\ svpc' = "done"
    /\ UNCHANGED <<sigterm, backend_installed, ltask, conns, nconn, ltask2, mtask>>
    /\ UNCHANGED <<mount_mode, mpc, mcand, mhist>>
    /\ UNCHANGED chanVars
    /\ ServerFrame

(***************************************************************************)
(* Listener tasks                                                          *)
(***************************************************************************)
ListenerFrame ==
    /\ UNCHANGED <<sigterm, svpc, backend_installed, mtask, svhist>>
    /\ UNCHANGED <<chanVars, mountVars>>
    /\ ServerFrame

\* create_server_task_with_tls: the accept branch of select! with Ok; a
\* connection task is spawned with a clone of drop_after_connection.
ListenerAccept ==
    /\ ltask = "accept"
    /\ nconn < MaxConnections
    /\ nconn' = nconn + 1
    /\ conns' = conns \cup {nconn + 1}
    /\ UNCHANGED <<ltask, ltask2>>
    /\ ListenerFrame

\* The accept branch with Err: `return`.
ListenerAcceptError ==
    /\ ltask = "accept"
    /\ ltask' = "done"
    /\ UNCHANGED <<conns, nconn, ltask2>>
    /\ ListenerFrame

\* The quit branch: `break`, then drop(drop_after_connection).
ListenerQuit ==
    /\ ltask = "accept"
    /\ quit
    /\ ltask' = "drain"
    /\ UNCHANGED <<conns, nconn, ltask2>>
    /\ ListenerFrame

\* `wait_all_connections.recv()` returns None: every sender is dropped.
ListenerDrained ==
    /\ ltask = "drain"
    /\ conns = {}
    /\ ltask' = "done"
    /\ UNCHANGED <<conns, nconn, ltask2>>
    /\ ListenerFrame

\* A connection task ends (quit, failed handshake, connection served) and
\* drops drop_on_quit.
ConnectionEnds(c) ==
    /\ c \in conns
    /\ conns' = conns \ {c}
    /\ UNCHANGED <<ltask, nconn, ltask2>>
    /\ ListenerFrame

\* create_server_task_no_tls: the quit branch, or the server ended by
\* itself.
Listener2Ends ==
    /\ ltask2 = "serving"
    /\ ltask2' = "done"
    /\ UNCHANGED <<ltask, conns, nconn>>
    /\ ListenerFrame

(***************************************************************************)
(* Manager tasks, as the supervisor sees them                              *)
(***************************************************************************)
ManagerFrame ==
    /\ UNCHANGED <<sigterm, svpc, backend_installed, ltask, conns, nconn, ltask2, svhist>>
    /\ UNCHANGED <<chanVars, mountVars>>
    /\ ServerFrame

\* select! takes the branch of the command channel (or, in the reboot
\* manager, of a timer) and the handler begins.
ManagerRecv(m) ==
    /\ mtask[m] = "select"
    /\ mtask' = [mtask EXCEPT ![m] = "handling"]
    /\ ManagerFrame

\* The handler returns and the loop goes back to select!.
ManagerHandled(m) ==
    /\ mtask[m] = "handling"
    /\ mtask' = [mtask EXCEPT ![m] = "select"]
    /\ ManagerFrame

\* quit_notification.recv() is a branch of select! and polled only there.
QuitPolled(pc) == pc = "select"

\* select! takes the quit branch: `return`.
ManagerQuit(m) ==
    /\ mtask[m] \in {"select", "handling"}
    /\ QuitPolled(mtask[m])
    /\ quit
    /\ mtask' = [mtask EXCEPT ![m] = "stopped"]
    /\ ManagerFrame

ServerNext ==
    \/ MountCheckAvailable
    \/ \E ok \in BOOLEAN : MountGetKey(ok)
    \/ \E outcome \in IsDefaultOutcomes : MountIsDefault(outcome)
    \/ \E ok \in BOOLEAN : MountChangePassword(ok)
    \/ \E ok \in BOOLEAN : MountOpen(ok)
    \/ MountCommit
    \/ MountRetry
    \/ SignalArrives
    \/ MountLoopLeft
    \/ ReturnFromMountLoop
    \/ CreateStorageDir
    \/ \E ok \in BOOLEAN : StartBackendAtStartup(ok)
    \/ QuitStarted
    \/ JoinServerTask1
    \/ JoinServerTask2
    \/ \E m \in Managers : WaitQuit(m)
    \/ \E ok \in BOOLEAN : StopBackendAtQuit(ok)
    \/ \E ok \in BOOLEAN : UnmountIfNeeded(ok)
    \/ ListenerAccept
    \/ ListenerAcceptError
    \/ ListenerQuit
    \/ ListenerDrained
    \/ \E c \in 1..MaxConnections : ConnectionEnds(c)
    \/ Listener2Ends
    \/ \E m \in Managers : ManagerRecv(m)
    \/ \E m \in Managers : ManagerHandled(m)
    \/ \E m \in Managers : ManagerQuit(m)

\* The process starts with or without [secure_storage], a local key, a
\* software update provider, an installed backend and a second listener.
InitServer ==
    /\ ChanInit
    /\ AuthInit
    /\ config \in {c \in Configs : c.reboot_time /\ (c.data_reset_dir <=> c.update_provider)
                                       /\ (c.local_key => c.secure_storage)}
    /\ MountInit
    /\ RebootInit
    /\ UpdInit
    /\ BuildInit
    /\ sigterm = FALSE
    /\ svpc = "mount"
    /\ backend_installed \in BOOLEAN
    /\ ltask = "accept"
    /\ conns = {}
    /\ nconn = 0
    /\ ltask2 \in {"none", "serving"}
    /\ mtask = [m \in Managers |-> "select"]
    /\ svhist = NoServerHistory
    /\ ClockInit

SpecServer == InitServer /\ [][ServerNext]_vars

Init ==
    /\ ChanInit
    /\ AuthInit
    /\ config = DefaultConfig
    /\ MountInit
    /\ RebootInit
    /\ UpdInit
    /\ BuildInit
    /\ ServerInit
    /\ ClockInit

InitUpdate ==
    /\ ChanInit
    /\ AuthInit
    /\ config \in {c \in Configs : c.secure_storage /\ ~c.local_key /\ c.reboot_time
                                       /\ c.update_provider}
    /\ MountInit
    /\ storage_available
    /\ RebootInit
    /\ UpdInit
    /\ BuildInit
    /\ ServerInit
    /\ ClockInit

InitReboot ==
    /\ ChanInit
    /\ AuthInit
    /\ config \in {c \in Configs : c.data_reset_dir}
    /\ MountInit
    /\ RebootInit
    /\ UpdInit
    /\ BuildInit
    /\ ServerInit
    /\ ClockInit

ChanNext ==
    \/ \E i \in Senders : SendTryLock(i)
    \/ \E i \in Senders : SendPlace(i)
    \/ \E i \in Senders : SendNotify(i)
    \/ RecvWake
    \/ RecvQuit
    \/ RecvLock
    \/ \E outcome \in {"ok", "failed"} : HandleMessage(outcome)
    \/ Quit

SpecChannel == Init /\ [][ChanNext]_vars

(***************************************************************************)
(* Claims about the channel                                                *)
(***************************************************************************)

\* C1: while an accepted command is in flight (placed, handler not finished,
\* guard not dropped) no other send_message places a message: at most one
\* command is in flight, the in-flight set never grows while non-empty, and
\* every other call that returns meanwhile returns AlreadyLocked or
\* CommandInProgress.
C1_OneInFlight ==
    [][ /\ Cardinality(inFlight') <= 1
        /\ (inFlight # {} => inFlight' \subseteq inFlight)
        /\ \A i \in Senders :
              (inFlight # {} /\ i \notin inFlight /\ sres'[i] # sres[i] /\ sres'[i] # NoResult)
                 => sres'[i].r \in {"AlreadyLocked", "CommandInProgress"}
      ]_vars

\* C1 witness: the handler is running for one sender's command and another
\* sender has been rejected because the receiver holds the guard.
C1_Witness ==
    /\ rpc = "handling"
    /\ \E i \in Senders, j \in Senders :
          /\ inFlight = {i}
          /\ j # i
          /\ sres[j] = [r |-> "AlreadyLocked", holder |-> Receiver]

\* C2: when the handler of an accepted command ends, with success or with
\* failure, the slot is empty, the guard is released, no wake is pending and
\* the manager is back in its select loop, so the next send_message is
\* accepted; the manager stops only on quit.
C2_SlotReleased ==
    [][ /\ (rpc = "handling" /\ rpc' # "handling")
            => /\ message_storage' = NoMessage
               /\ mutex' = Free
               /\ wake' = 0
               /\ inFlight' = {}
               /\ rpc' = "select"
        /\ (rpc' = "stopped" => quit')
      ]_vars

\* C2 witness: a command has been accepted and is being handled after the
\* previous handler ended in failure.
C2_Witness ==
    /\ lastOutcome = "failed"
    /\ rpc = "handling"
    /\ \E i \in Senders : inFlight = {i} /\ sres[i].r = "Ok"

SpecAuth == Init /\ [][AuthNext]_vars

SpecReboot == InitReboot /\ [][RebootNext]_vars

SpecUpdate == InitUpdate /\ [][UpdNext]_vars

SpecRestart == InitUpdate /\ [][RestartNext]_vars

(***************************************************************************)
(* Claims about the API lock                                               *)
(***************************************************************************)

\* C4: a request that presents a key string different from the configured
\* key sets API_SECURITY_LOCK; the lock is never cleared; every request that
\* arrives with a key string once the lock is set is answered LOCKED (423),
\* also with the correct key, and no request that arrives after the lock is
\* set reaches an endpoint handler.
C4_LockSticky ==
    [][ /\ (API_SECURITY_LOCK => API_SECURITY_LOCK')
        /\ \A q \in Requests :
              /\ (req[q].pc = "loaded" /\ req'[q].pc = "done" /\ req[q].header.key # ApiKey)
                    => API_SECURITY_LOCK'
              /\ (req'[q].pc = "done" /\ req'[q].arrivedLocked)
                    => /\ ~req'[q].handled
                       /\ (req'[q].header.kind = "str" => req'[q].status = "LOCKED")
      ]_vars

\* C4 witness: a request carrying the correct key arrived after the lock was
\* set and has been answered LOCKED.
C4_Witness ==
    \E q \in Requests :
        /\ req[q].pc = "done"
        /\ req[q].arrivedLocked
        /\ req[q].header = [kind |-> "str", key |-> ApiKey]
        /\ req[q].status = "LOCKED"

(***************************************************************************)
(* Claims about the reboot interlock                                       *)
(***************************************************************************)

\* C3: in every finished reboot attempt `sudo reboot` was invoked if and only
\* if the mount mode read by the attempt was not MountedWithRemoteKey or the
\* key request of the attempt succeeded, and the key provider was asked if
\* and only if the mode was MountedWithRemoteKey.
C3_RebootInterlock ==
    (attempt.made /\ attempt.ended)
        => /\ attempt.invoked <=> (attempt.mode # "MountedWithRemoteKey" \/ attempt.keyOk)
           /\ attempt.keyAsked <=> (attempt.mode = "MountedWithRemoteKey")

\* C3 witness: an attempt made under MountedWithRemoteKey ended without
\* reboot because the key request failed, with the latch still set.
C3_Witness ==
    /\ attempt.ended
    /\ attempt.mode = "MountedWithRemoteKey"
    /\ attempt.keyAsked
    /\ ~attempt.keyOk
    /\ ~attempt.invoked
    /\ REBOOT_ON_NEXT_CHECK

(***************************************************************************)
(* Properties of the update pipeline                                       *)
(***************************************************************************)
\* The last command has returned Ok(()).
EndedOk == upc = "idle" /\ ures = "ok"

\* The command before the last one was for the same binary and returned r.
PreviousEnded(r) == prev.valid /\ prev.res = r /\ prev.cmd.software = ucmd.software

\* C5: whenever an UpdateSoftware{k,..} command ends successfully, the
\* BuildInfo in update/<k>.json equals the BuildInfo in
\* update/<k>.json.installed, and both are the BuildInfo the peer returned
\* for that command.
C5_InfoEqualsInstalled ==
    EndedOk =>
        /\ disk.json[ucmd.software] # NoFile
        /\ disk.installed[ucmd.software] # NoFile
        /\ ReadBuildInfo(disk.json[ucmd.software]) = ReadBuildInfo(disk.installed[ucmd.software])
        /\ ReadBuildInfo(disk.json[ucmd.software]) = ulocal.latest
        /\ ulocal.latest = BuildInfoOf(ucmd.software, ulocal.latest.commit_sha)

\* An upgrade over an installed version has ended successfully.
C5_Witness ==
    /\ EndedOk
    /\ uhist.installed
    /\ disk.installed_old[ucmd.software] # NoFile
    /\ ReadBuildInfo(disk.installed[ucmd.software]) = BuildInfoOf(ucmd.software, MaxVersion)

\* C6: a second UpdateSoftware for the same binary right after a successful
\* one, with the peer serving the same BuildInfo, has no side effect: no
\* download, no change of any file or directory, no change of
\* REBOOT_ON_NEXT_CHECK, no RebootNow, whatever force_reboot and reset_data are;
\* it sees current == latest and latest == installed.
C6_SecondRunNoEffect ==
    (PreviousEnded("ok") /\ ulocal.latest = prev.latest) =>
        /\ upc \in {"compare_current", "read_installed", "idle"}
        /\ upc # "compare_current" => ulocal.current = ulocal.latest
        /\ EndedOk => ulocal.latest = ReadBuildInfo(disk.installed[ucmd.software])
        /\ ~uhist.downloaded /\ ~uhist.wrote /\ ~uhist.installed
        /\ uhist.sent = 0
        /\ REBOOT_ON_NEXT_CHECK = uhist.latch0
        /\ upc # "idle" => disk = uhist.pre
        /\ [disk EXCEPT !.data_dir = uhist.pre.data_dir, !.data_gen = uhist.pre.data_gen] = uhist.pre

\* A second run with force_reboot and reset_data set has ended after a
\* first run that installed.
C6_Witness ==
    /\ PreviousEnded("ok")
    /\ prev.hist.installed
    /\ ulocal.latest = prev.latest
    /\ EndedOk
    /\ ucmd.force_reboot /\ ucmd.reset_data /\ ucmd.software = "backend"
    /\ config.data_reset_dir

\* The files an update that succeeds on the first try leaves, started on
\* disk `pre` with the peer serving BuildInfo number j and binary number g.
FirstTry(pre, cmd, j, g) ==
    LET k == cmd.software
        latest == BuildInfoOf(k, j)
        download == ReadBuildInfo(pre.json[k]) # latest
        staged == IF download THEN g ELSE pre.staged[k]
        install == latest # ReadBuildInfo(pre.installed[k])
        rotate == install /\ cmd.reset_data /\ k = "backend" /\ config.data_reset_dir
    IN  [possible |-> /\ j # 0
                      /\ download => g # 0
                      /\ install => staged # 0
                      /\ rotate => pre.data_dir # 0,
         staged |-> staged,
         json |-> IF download THEN ToJson(latest) ELSE pre.json[k],
         installed |-> IF install THEN ToJson(latest) ELSE pre.installed[k],
         target |-> IF install THEN staged ELSE pre.target[k],
         data_dir_old |-> IF rotate THEN pre.data_dir ELSE pre.data_dir_old]

\* The same files as they are on the disk now.
OnDisk(k) ==
    [staged |-> disk.staged[k], json |-> disk.json[k], installed |-> disk.installed[k],
     target |-> disk.target[k], data_dir_old |-> disk.data_dir_old]

\* A command failed, and the same command was given again with the peer
\* left alone and every step succeeding.
RetryEndedOk ==
    /\ PreviousEnded("failed")
    /\ prev.cmd = ucmd
    /\ ~uhist.published
    /\ EndedOk

Expected == FirstTry(prev.hist.pre, ucmd, peer.json[ucmd.software], peer.gpg[ucmd.software])

\* C7: after a failed UpdateSoftware, the same command with an unchanged peer
\* and every step succeeding ends with the staged binary, <name>.json,
\* <name>.json.installed, the binary at the install path and the data
\* directory rotation as an update that succeeded on the first try leaves
\* them.
C7_RetryHeals ==
    (RetryEndedOk /\ Expected.possible) =>
        OnDisk(ucmd.software) = [f \in DOMAIN OnDisk(ucmd.software) |-> Expected[f]]

\* C8: when a command has installed a new version and returned Ok,
\* REBOOT_ON_NEXT_CHECK is set and RebootNow was put into the reboot manager's
\* channel once with force_reboot and never without; no command sends
\* RebootNow unless it installed with force_reboot.
C8_LatchAndRebootNow ==
    /\ uhist.sent <= 1
    /\ uhist.sent = 1 => (ucmd.force_reboot /\ uhist.installed)
    /\ (EndedOk /\ uhist.installed) =>
           /\ REBOOT_ON_NEXT_CHECK
           /\ uhist.sent = (IF ucmd.force_reboot THEN 1 ELSE 0)

\* An install with force_reboot has returned Ok and its RebootNow went out.
C8_Witness ==
    /\ EndedOk
    /\ uhist.installed
    /\ ucmd.force_reboot
    /\ uhist.sent = 1
    /\ REBOOT_ON_NEXT_CHECK

\* C9: in every state, when update/<name>.json.installed exists, the
\* BuildInfo in it describes the binary at the install path.
C9_InstalledDescribesTarget ==
    \A k \in Kinds :
        disk.installed[k] # NoFile =>
            /\ disk.target[k] # 0
            /\ ReadBuildInfo(disk.installed[k]) = BuildInfoOf(k, disk.target[k])

\* C10: when the build node publishes between the fetch of the BuildInfo and
\* the download of the encrypted binary, the install does not record a
\* BuildInfo whose commit_sha is not the commit of the installed binary.
C10_SkewDetected ==
    (uhist.skew /\ uhist.installed) =>
        ReadBuildInfo(disk.installed[ucmd.software]).commit_sha = disk.target[ucmd.software]

(***************************************************************************)
(* Properties of the channel after the receiver is gone, and of the wake   *)
(***************************************************************************)
\* C18: every send_message call begun after the receiver was dropped returns
\* ChannelBroken and leaves the slot empty.  Stated for the calls that get
\* the lock; a call that meets another caller inside try_lock returns
\* AlreadyLocked with or without a receiver.
C18_BrokenLeavesSlotEmpty ==
    \A i \in Senders :
        (sdrop[i] /\ spc[i] = "idle" /\ sres[i].r # "AlreadyLocked") =>
            /\ sres[i].r = "ChannelBroken"
            /\ message_storage = NoMessage

\* C19: a sender that has placed its message never finds the wake channel
\* full: the send of the wake completes at once, either with Ok or, when
\* the receiver is gone, with ChannelBroken.
C19_WakeHasRoom ==
    \A i \in Senders :
        spc[i] = "notify" => (rpc = "stopped" \/ wake < WakeCapacity)

\* A call has returned Ok while its command is still waiting to be handled.
C19_Witness ==
    \E i \in Senders :
        /\ sres[i].r = "Ok"
        /\ spc[i] = "idle"
        /\ inFlight = {i}
        /\ message_storage = [from |-> i]
        /\ wake = 1
        /\ rpc = "select"

(***************************************************************************)
(* Properties of the mount state and of the reboot manager                 *)
(***************************************************************************)
\* The reboot manager's loop takes its own steps; select! picks among the
\* ready branches at random and the timers stay pending for minutes or
\* hours, so a queued RebootNow is taken whenever the loop keeps coming back.
SpecRebootLive ==
    /\ InitReboot
    /\ [][RebootNext]_vars
    /\ SF_vars(RbRecvMessage)
    /\ WF_vars(\E ok \in BOOLEAN : RbKeyResult(ok))
    /\ WF_vars(\E success \in BOOLEAN : RbSudoReboot(success))

\* run_reboot reads the mount mode in this step.
ReadsMountMode == rbpc = "select" /\ rbpc' \in {"key", "reboot"}

\* C14: once the mount mode is not NotMounted it never changes again, and
\* every later read of it by the reboot manager returns that value.
C14_MountModeStays ==
    [][ /\ mount_mode # "NotMounted" => mount_mode' = mount_mode
        /\ (ReadsMountMode /\ mount_mode # "NotMounted") => attempt'.mode = mount_mode
      ]_vars

\* The reboot manager has read a mounted mode a second time, the process
\* shutting down.
C14_Witness ==
    /\ mount_mode = "MountedWithRemoteKey"
    /\ mpc = "done"
    /\ attempt.made /\ attempt.mode = "MountedWithRemoteKey"
    /\ trigger.prevAborted
    /\ quit

\* The sleep until the reboot check has completed in this step.
ScheduledCheck ==
    /\ rbpc = "select" /\ ~check_cooldown
    /\ trigger'.kind = "wake"
    /\ check_cooldown' \/ rbpc' \in {"key", "reboot"}

\* C15: REBOOT_ON_NEXT_CHECK only moves from false to true, also across
\* aborted and failed reboot attempts, and every scheduled check that finds
\* it set runs run_reboot again.
C15_LatchOnlySets ==
    [][ /\ REBOOT_ON_NEXT_CHECK => REBOOT_ON_NEXT_CHECK'
        /\ (ScheduledCheck /\ REBOOT_ON_NEXT_CHECK) =>
               (trigger'.attempted /\ rbpc' \in {"key", "reboot"})
      ]_vars

\* A scheduled check retries, on the latch alone, after an attempt that the
\* key interlock aborted.
C15_Witness ==
    /\ trigger.kind = "wake"
    /\ trigger.prevAborted
    /\ trigger.latch /\ ~trigger.file
    /\ trigger.attempted
    /\ REBOOT_ON_NEXT_CHECK

\* C16: at every trigger (the daily wake or a RebootNow message) a reboot
\* is attempted exactly when /var/run/reboot-required exists or
\* REBOOT_ON_NEXT_CHECK is set.
C16_AttemptIffNeeded ==
    trigger.kind \in {"wake", "message"} =>
        (trigger.attempted <=> (trigger.file \/ trigger.latch))

\* A RebootNow message was handled with the latch set and no
\* reboot-required file.
C16_Witness ==
    /\ trigger.kind = "message"
    /\ trigger.attempted
    /\ trigger.latch /\ ~trigger.file

\* C17: a RebootNow waiting in the channel, also one that arrived during a
\* scheduled check or the cooldown, is taken by a reboot attempt unless quit
\* is signalled.
C17_RebootNowHandled == (rbchan > 0) ~> (rbfrom = "message" \/ quit)

\* A RebootNow is waiting while a scheduled check is running.
C17_Witness ==
    /\ rbchan = 1
    /\ rbfrom = "scheduled"
    /\ rbpc = "key"
    /\ ~quit


(***************************************************************************)
(* Build manager: key path validation                                      *)
(***************************************************************************)
KeyPathClass ==
    {"A", "B", "C", "D", "E", "F", "G", "H", "I", "J", "K", "L", "M"}
    \cup {"N", "O", "P", "Q", "R", "S", "T", "U", "V", "W", "X", "Y", "Z"}
    \cup {"a", "b", "c", "d", "e", "f", "g", "h", "i", "j", "k", "l", "m"}
    \cup {"n", "o", "p", "q", "r", "s", "t", "u", "v", "w", "x", "y", "z"}
    \cup {"0", "1", "2", "3", "4", "5", "6", "7", "8", "9"}
    \cup {"_", ".", "/", "-"}

\* The path is absolute and all of its characters are in [A-Za-z0-9_./-].
Acceptable(path) ==
    /\ Len(path) > 0
    /\ path[1] = "/"
    /\ \A i \in 1..Len(path) : path[i] \in KeyPathClass

\* C20: validate_path accepts a key path iff the path is absolute and every
\* character of it is in [A-Za-z0-9_./-]; a build command whose configured
\* key path is rejected has ended with InvalidKeyPath, and no git command
\* ran in it.
C20_KeyPathValidated ==
    (bcount > 0 /\ bpc # "validate" /\ bkey[bcmd] # NoKey) =>
        /\ (validate_path(bkey[bcmd]) = "Ok") <=> Acceptable(bkey[bcmd])
        /\ Acceptable(bkey[bcmd]) => bres # "InvalidKeyPath"
        /\ ~Acceptable(bkey[bcmd]) =>
               /\ bres = "InvalidKeyPath"
               /\ bpc = "idle"
               /\ ~bhist.git

\* A relative path made of accepted characters was rejected, twice.
C20_Witness ==
    /\ bkey[bcmd] # NoKey
    /\ Len(bkey[bcmd]) = MaxPathLen
    /\ bkey[bcmd][1] = "a"
    /\ \A i \in 1..Len(bkey[bcmd]) : bkey[bcmd][i] \in KeyPathClass
    /\ bres = "InvalidKeyPath"
    /\ bpc = "idle"
    /\ bcount = MaxBuilds
    /\ bprev.res = "InvalidKeyPath"


(***************************************************************************)
(* Build manager: the build directory                                      *)
(***************************************************************************)
\* The command has compared the commits, and the HEAD of the clone is the
\* commit recorded in the latest/<binary>.json the command started with.
FoundNoNewCommits ==
    /\ bcount > 0
    /\ blocal.current_commit_sha # 0
    /\ bpc # "compare"
    /\ bhist.latest[bcmd].json \notin {NoFile, <<Truncated>>}
    /\ FromJson(bhist.latest[bcmd].json).commit_sha = repo[bcmd]

\* The build directory is as it was when the command started.
BuildDirUntouched ==
    /\ history_dir = bhist.history
    /\ latest_dir = bhist.latest

\* C12: a build command that finds HEAD equal to the commit_sha of
\* latest/<binary>.json has returned Ok without running the pre-build script
\* or cargo and left history/ and latest/ as they were; a build of the same
\* software right after one that returned Ok, with no new commit in between,
\* leaves history/ and latest/ as they were.
C12_NoNewCommitsNoBuild ==
    /\ FoundNoNewCommits =>
           /\ bpc = "idle"
           /\ bres = "ok"
           /\ ~bhist.script
           /\ ~bhist.cargo
           /\ BuildDirUntouched
    /\ (bprev.valid /\ bprev.res = "ok" /\ bprev.software = bcmd /\ ~bhist.pushed) =>
           /\ ~bhist.script
           /\ ~bhist.cargo
           /\ BuildDirUntouched

\* The second of two builds in a row ended; the first had built commit 1.
C12_Witness ==
    /\ bprev.valid /\ bprev.res = "ok" /\ bprev.software = bcmd /\ ~bhist.pushed
    /\ FoundNoNewCommits
    /\ bpc = "idle"
    /\ bres = "ok"
    /\ bscript
    /\ history_dir[bcmd] = 1
    /\ latest_dir[bcmd] = [bin |-> 1, gpg |-> 1, json |-> ToJson(BuildInfoOf(bcmd, 1))]

\* C11: after a build command that failed, latest/ is exactly as it was
\* before the command.
C11_FailureLeavesLatest ==
    (bpc = "idle" /\ bres \notin {"none", "ok"}) => latest_dir = bhist.latest

\* C13: for each software, whenever binary, <binary>.gpg and <binary>.json
\* exist in latest/, the commit_sha of the .json is the commit the binary and
\* the .gpg in latest/ were built from.
C13_LatestDescribesBinary ==
    \A k \in Kinds :
        (latest_dir[k].bin # 0 /\ latest_dir[k].gpg # 0 /\ latest_dir[k].json # NoFile) =>
            /\ latest_dir[k].json # <<Truncated>>
            /\ FromJson(latest_dir[k].json).commit_sha = latest_dir[k].bin
            /\ FromJson(latest_dir[k].json).commit_sha = latest_dir[k].gpg


(***************************************************************************)
(* Update manager: data reset                                              *)
(***************************************************************************)
\* The backend data directory and its -old neighbour.
DataDirs(d) == <<d.data_dir, d.data_dir_old>>

\* A step of the update manager that changes one of the two directories.
DataDirsChange == upc # "idle" /\ DataDirs(disk') # DataDirs(disk)

\* C30: the update manager changes the backend data directory or its -old
\* neighbour only for software backend with backend_data_reset_dir configured
\* and reset_data asked for; the change is either the removal of an existing
\* <dir>-old or, with no <dir>-old left, the rename of <dir> to <dir>-old;
\* inside update_software it happens only when the latest version differed
\* from the installed one and the installed record has been written.
C30_DataResetOnlyBackend ==
    [][ DataDirsChange =>
          /\ ucmd.software = "backend"
          /\ config.data_reset_dir
          /\ ucmd.reset_data
          /\ \/ /\ upc = "remove_old_data"
                /\ disk.data_dir_old # 0
                /\ DataDirs(disk') = <<disk.data_dir, 0>>
             \/ /\ upc = "rename_data"
                /\ disk.data_dir_old = 0
                /\ disk.data_dir # 0
                /\ DataDirs(disk') = <<0, disk.data_dir>>
          /\ ~uhist.restart =>
                 /\ uhist.installed
                 /\ ulocal.latest # ReadBuildInfo(uhist.pre.installed["backend"])
                 /\ disk.installed["backend"] = ToJson(ulocal.latest)
      ]_vars

\* The second rotation: the first <dir>-old was deleted and the directory
\* the backend made after the first rotation has taken its place.
C30_Witness ==
    /\ upc = "idle"
    /\ ures = "ok"
    /\ ucmd.software = "backend"
    /\ ucmd.reset_data
    /\ uhist.installed
    /\ ~uhist.restart
    /\ DataDirs(disk) = <<0, 2>>


(***************************************************************************)
(* Update manager: RestartBackend                                          *)
(***************************************************************************)
\* The rotation restart_backend owes before start-backend: none without
\* reset_data or without a configured directory, else <dir> renamed to
\* <dir>-old.
RotationDone ==
    IF ucmd.reset_data /\ config.data_reset_dir
       THEN uhist.pre.data_dir # 0 /\ DataDirs(disk) = <<0, uhist.pre.data_dir>>
       ELSE DataDirs(disk) = DataDirs(uhist.pre)

\* C29: restart_backend runs stop-backend first; the data directory is
\* rotated only with reset_data, after stop-backend exited zero and before
\* start-backend; start-backend runs only after stop-backend exited zero and
\* the rotation, if owed, is done; a stop-backend that exits non-zero ends
\* the command with an error.
C29_RestartBackendOrder ==
    [][ uhist.restart =>
          /\ (upc = "stop_backend" /\ uhist'.stop = "failed") =>
                 /\ upc' = "idle"
                 /\ ures' = "failed"
                 /\ disk' = uhist.pre
                 /\ uhist'.start = "none"
          /\ DataDirsChange =>
                 /\ ucmd.reset_data
                 /\ uhist.stop = "ok"
                 /\ uhist.start = "none"
          /\ (uhist.start = "none" /\ uhist'.start # "none") =>
                 /\ uhist.stop = "ok"
                 /\ RotationDone
      ]_vars

\* A restart with reset_data that rotated the directory the backend had made
\* after an earlier rotation, and then started the backend.
C29_Witness ==
    /\ uhist.restart
    /\ ucmd.reset_data
    /\ uhist.stop = "ok"
    /\ uhist.start = "ok"
    /\ upc = "idle"
    /\ DataDirs(disk) = <<0, 2>>
    /\ prev.valid
    /\ prev.hist.restart


(***************************************************************************)
(* Manager loops and the quit watcher                                      *)
(***************************************************************************)
\* C25: once the quit broadcaster is dropped, a manager loop waiting in its
\* select! does not take the branch of its command channel.
C25_QuitWins == [][ quit => ~(rpc = "select" /\ rpc' = "locking") ]_vars


(***************************************************************************)
(* Mount manager: the mode and the scripts of an attempt                   *)
(***************************************************************************)
\* The key the attempt owes to open-encryption, and the mode that goes with
\* it: the peer's key, else the configured local key, else the default
\* password.
OwedKey ==
    IF mhist.getkey = "ok" THEN "remote"
    ELSE IF config.local_key THEN "local" ELSE "default"

ModeOfKey(key) ==
    IF key = "remote" THEN "MountedWithRemoteKey"
    ELSE IF key = "local" THEN "MountedWithLocalKey"
    ELSE "MountedWithDefaultKey"

\* mount_if_needed returns an error to the mount loop.
MountAttemptFails == mpc # "retrywait" /\ mpc' = "retrywait"

\* C23: MountMode changes only in a step with which mount_if_needed returns
\* Ok: to MountedWithUnknownKey when the availability-check path exists, else
\* after open-encryption exited zero to the mode of the key that was fed to
\* it, the peer's key, else the local key, else the default password; an
\* attempt that fails leaves MountMode at NotMounted.
C23_ModeSetOnSuccess ==
    [][ /\ mount_mode' # mount_mode =>
              /\ mpc' = "done"
              /\ \/ /\ mpc = "start"
                    /\ storage_available
                    /\ mount_mode' = "MountedWithUnknownKey"
                 \/ /\ mpc = "commit"
                    /\ mhist.open = "ok"
                    /\ mhist.getkey \in {"ok", "failed"}
                    /\ mhist.opened = OwedKey
                    /\ OwedKey = "default" => mhist.isdefault = "yes"
                    /\ mount_mode' = ModeOfKey(OwedKey)
        /\ MountAttemptFails => (mount_mode = "NotMounted" /\ mount_mode' = "NotMounted")
      ]_vars

\* The peer gave no key; the attempt replaced the default password with the
\* local key, opened the volume with it and committed the mode.
C23_Witness ==
    /\ mount_mode = "MountedWithLocalKey"
    /\ mpc = "done"
    /\ mhist.getkey = "failed"
    /\ mhist.changed = "local"
    /\ mhist.opened = "local"
    /\ mhist.open = "ok"

\* The attempt had a key candidate: the peer's key or the local key.
HasCandidate == mhist.getkey = "ok" \/ (mhist.getkey = "failed" /\ config.local_key)

\* C24: change-encryption-password is run iff is-default-encryption-password
\* reported the default password and the attempt has a key candidate, and
\* open-encryption is then fed the same key; without a candidate the password
\* is not changed and open-encryption is fed the default password, and only
\* if the default password was reported; open-encryption is not run after a
\* failed password change.
C24_PasswordChange ==
    /\ mhist.changed # "none" =>
           /\ mhist.isdefault = "yes"
           /\ HasCandidate
           /\ mhist.changed = OwedKey
    /\ (mhist.isdefault = "yes" /\ HasCandidate /\ mpc # "changepw") => mhist.changed # "none"
    /\ (mhist.opened # "none" /\ mhist.changed # "none") =>
           /\ mhist.opened = mhist.changed
           /\ mhist.change = "ok"
    /\ mhist.change = "failed" => (mhist.opened = "none" /\ mpc \in {"retrywait", "start", "aborted"})
    /\ (mhist.getkey = "failed" /\ ~config.local_key) =>
           /\ mhist.changed = "none"
           /\ mhist.opened \in {"none", "default"}
           /\ mhist.isdefault \in {"no", "error"} =>
                  (mhist.opened = "none" /\ mpc \in {"retrywait", "start", "aborted"})
    /\ mhist.opened = "default" =>
           /\ mhist.isdefault = "yes"
           /\ ~HasCandidate

\* The default password was replaced by the peer's key and the volume was
\* opened with that key.
C24_Witness ==
    /\ mhist.isdefault = "yes"
    /\ mhist.changed = "remote"
    /\ mhist.change = "ok"
    /\ mhist.opened = "remote"
    /\ mhist.open = "ok"
    /\ mount_mode = "MountedWithRemoteKey"


(***************************************************************************)
(* Supervisor: shutdown                                                    *)
(***************************************************************************)
\* How far AppServer::run has come.
SvRank(pc) ==
    CASE pc = "mount" -> 0
      [] pc = "create_dir" -> 1
      [] pc = "start_backend" -> 2
      [] pc = "wait_signal" -> 3
      [] pc = "join_server_task1" -> 4
      [] pc = "join_server_task2" -> 5
      [] pc = "wait_quit_build" -> 6
      [] pc = "wait_quit_reboot" -> 7
      [] pc = "wait_quit_update" -> 8
      [] pc = "stop_backend" -> 9
      [] pc = "unmount" -> 10
      [] pc = "done" -> 11
      [] OTHER -> 0

ListenersEnded == ltask = "done" /\ ltask2 \in {"none", "done"}

\* C21: on quit the supervisor drops the quit broadcaster, then waits for the
\* listener tasks, then for the build, reboot and update manager tasks, in
\* that order; stop-backend is invoked only when all of them have ended,
\* close-encryption only after the stop-backend attempt, and a stop-backend
\* that fails is followed by the unmount all the same.
C21_ShutdownOrder ==
    /\ [](/\ SvRank(svpc) >= 4 => (quit /\ sigterm)
          /\ SvRank(svpc) >= 6 => ListenersEnded
          /\ SvRank(svpc) >= 7 => mtask["build"] = "stopped"
          /\ SvRank(svpc) >= 8 => mtask["reboot"] = "stopped"
          /\ SvRank(svpc) >= 9 => mtask["update"] = "stopped"
          /\ svhist.stop # "none" => SvRank(svpc) >= 10
          /\ svhist.close # "none" => (svpc = "done" /\ (config.update_provider => svhist.stop # "none")))
    /\ [][ /\ svhist'.stop # svhist.stop =>
                 (ListenersEnded /\ \A m \in Managers : mtask[m] = "stopped")
           /\ (svpc = "stop_backend" /\ svhist'.stop = "failed") => svpc' = "unmount"
           /\ (svpc = "unmount" /\ svpc' # svpc /\ config.secure_storage
                                 /\ storage_available) =>
                 svhist'.close # "none"
         ]_vars

\* stop-backend failed and close-encryption was run after it.
C21_Witness ==
    /\ svpc = "done"
    /\ svhist.stop = "failed"
    /\ svhist.close = "ok"
    /\ svhist.start = "ok"
    /\ nconn = MaxConnections
    /\ ltask2 = "done"

\* C22: close-encryption is run at shutdown only when this process mounted
\* the storage: not in mode MountedWithUnknownKey and not in mode NotMounted.
C22_UnmountOwnMountOnly ==
    svhist.close # "none" =>
        svhist.close_mode \in {"MountedWithRemoteKey", "MountedWithLocalKey",
                               "MountedWithDefaultKey"}

\* C28: with [secure_storage] the supervisor leaves the retry wait of the
\* mount loop only for the next attempt or, on the quit signal, to return;
\* it is past the mount loop only with a MountMode other than NotMounted, and
\* start-backend was invoked at startup only then.
C28_StartupAfterMount ==
    /\ [](config.secure_storage =>
             /\ (svpc \notin {"mount", "returned"}) => mount_mode # "NotMounted"
             /\ svhist.start # "none" => svhist.start_mode # "NotMounted"
             /\ mpc = "aborted" => sigterm
             /\ svpc = "returned" => svhist = NoServerHistory)
    /\ [][ (mpc = "retrywait" /\ mpc' # mpc) =>
               \/ sigterm /\ mpc' = "aborted"
               \/ ~sigterm /\ mpc' = "start" /\ mount_mode' = "NotMounted"
         ]_vars

\* The backend was started after the volume was opened with the default
\* password.
C28_Witness ==
    /\ config.secure_storage
    /\ svpc = "wait_signal"
    /\ svhist.start = "ok"
    /\ svhist.start_mode = "MountedWithDefaultKey"
    /\ mount_mode = "MountedWithDefaultKey"
    /\ mhist.open = "ok"

\* C26: a manager task whose handler has started leaves the handler only by
\* the handler's return.
C26_HandlerRunsToEnd ==
    [][ \A m \in Managers : mtask[m] = "handling" => mtask'[m] \in {"handling", "select"} ]_vars

\* C27: the TLS listener accepts nothing once the quit broadcaster is
\* dropped, and it ends only when no connection task holds its sentinel.
C27_ListenerDrains ==
    [][ /\ (quit /\ ltask = "accept") => nconn' = nconn
        /\ (ltask # "done" /\ ltask' = "done") => conns = {}
      ]_vars

(***************************************************************************)
(* Claims about the wake signal, the install window and the mount gate      *)
(***************************************************************************)

\* C31: when the receiver takes the container after a wake the slot holds a
\* message: at most one wake is outstanding, an outstanding or just-consumed
\* wake implies a non-empty slot, and lock_message_container is always
\* followed by the handler, never by the "Unexpected empty container" arm.
C31_WakeImpliesMessage ==
    [][ /\ wake' <= 1
        /\ (wake' = 1 \/ rpc' = "locking") => message_storage' # NoMessage
        /\ (rpc = "locking" /\ rpc' # "locking") => rpc' = "handling"
      ]_vars

\* C31 witness: the receiver has taken the container for a second command,
\* after the handler of an earlier one ended and cleared the slot.
C31_Witness ==
    /\ rpc = "handling"
    /\ lastOutcome # "none"
    /\ message_storage # NoMessage
    /\ wake = 0

\* An earlier UpdateSoftware for the same software replaced the binary and
\* wrote the installed record, then failed.
FailedAfterReplacement ==
    /\ prev.valid
    /\ prev.res = "failed"
    /\ prev.hist.installed
    /\ prev.cmd.software = ucmd.software

\* C32: a command that replaced the binary and wrote the installed record
\* has REBOOT_ON_NEXT_CHECK set when it returns Ok, and when it failed after
\* the replacement the latch is set by the end of the next successful
\* UpdateSoftware for the same software.
C32_ReplacedBinaryHasPendingReboot ==
    /\ (EndedOk /\ uhist.installed) => REBOOT_ON_NEXT_CHECK
    /\ (EndedOk /\ FailedAfterReplacement) => REBOOT_ON_NEXT_CHECK

(***************************************************************************)
(* The update manager and the reboot manager as concurrent tasks           *)
(***************************************************************************)

\* AppServer::run after the mount loop, with secure storage opened with the
\* key of the key provider.
InitInstall ==
    /\ ChanInit
    /\ AuthInit
    /\ config \in {c \in Configs : c.secure_storage /\ ~c.local_key /\ c.reboot_time
                                       /\ c.data_reset_dir}
    /\ mount_mode = "MountedWithRemoteKey"
    /\ mpc = "done"
    /\ mcand = [key |-> "remote", mode |-> "MountedWithRemoteKey"]
    /\ storage_available = TRUE
    /\ mhist = [NoMountHistory EXCEPT !.getkey = "ok", !.isdefault = "no",
                                      !.opened = "remote", !.open = "ok"]
    /\ RebootInit
    /\ UpdInit
    /\ BuildInit
    /\ ServerInit
    /\ ClockInit

\* UpdateManager::run and RebootManager::run are separate tokio tasks
\* (tokio::spawn in UpdateManager::new and RebootManager::new): every step
\* of one interleaves with every step of the other.
\* The commands sent here: updates of the backend without reset_data, so
\* that install_latest_software goes from the record write to the latch.
InstallCommands == {c \in Commands : c.software = "backend" /\ ~c.reset_data}

InstallNext ==
    \/ \E cmd \in InstallCommands : UpdateSoftware(cmd)
    \/ \E ok \in BOOLEAN : ReadLatestBuildInfo(ok)
    \/ \E ok \in BOOLEAN : DownloadLatestInfo(ok)
    \/ CompareCurrent
    \/ \E ok \in BOOLEAN : DownloadLatestEncryptedBinary(ok)
    \/ \E ok \in BOOLEAN : WriteEncryptedBinary(ok)
    \/ \E ok \in BOOLEAN : ImportGpgPublicKey(ok)
    \/ \E ok \in BOOLEAN : RemovePreviousBinary(ok)
    \/ \E ok \in BOOLEAN : DecryptEncryptedBinary(ok)
    \/ \E ok \in BOOLEAN : WriteLatestBuildInfo(ok)
    \/ \E ok \in BOOLEAN : ReadLatestInstalledBuildInfo(ok)
    \/ \E ok \in BOOLEAN : RenameInstalledBuildInfo(ok)
    \/ \E ok \in BOOLEAN : ReplaceBinaryRename(ok)
    \/ \E ok \in BOOLEAN : ReplaceBinaryCopy(ok)
    \/ \E ok \in BOOLEAN : ReplaceBinaryChmod(ok)
    \/ \E ok \in BOOLEAN : WriteInstalledBuildInfo(ok)
    \/ StoreRebootOnNextCheck
    \/ RebootNow
    \/ \E k \in Kinds : PublishEncryptedBinary(k)
    \/ \E k \in Kinds : PublishBuildInfo(k)
    \/ RbSleepCompleted
    \/ RbCooldownElapsed
    \/ RbRecvMessage
    \/ \E ok \in BOOLEAN : RbKeyResult(ok)
    \/ \E success \in BOOLEAN : RbSudoReboot(success)
    \/ RebootRequiredAppears

SpecInstall == InitInstall /\ [][InstallNext]_vars

\* install_latest_software has renamed the old installed record or the old
\* binary at the install path away and has not yet written the new record.
MidInstall ==
    /\ upc \in {"rename_target", "copy", "chmod", "write_installed"}
    /\ \/ uhist.pre.installed[ucmd.software] # NoFile
       \/ upc # "rename_target" /\ uhist.pre.target[ucmd.software] # 0

\* C33: the reboot manager never runs `sudo reboot` while the update manager
\* is between renaming the old installed record or install target away and
\* finishing the write of the new installed record.
C33_NoRebootDuringInstall ==
    [][ (rbpc = "reboot" /\ rbpc' # "reboot") => ~MidInstall ]_vars

\* open-encryption has exited zero for the key of the key provider.
OpenedWithRemoteKey == mhist.opened = "remote" /\ mhist.open = "ok"

\* C34: every reboot attempt that starts after open-encryption succeeded
\* with the remote key reads MountedWithRemoteKey, so that it asks the key
\* provider before `sudo reboot`.
C34_OpenedVolumeReadAsRemoteKey ==
    [][ (ReadsMountMode /\ OpenedWithRemoteKey) => attempt'.mode = "MountedWithRemoteKey" ]_vars

\* The Build or Update manager begins to handle a command in this step.
CommandHandlingBegins ==
    \E m \in {"build", "update"} : mtask[m] = "select" /\ mtask'[m] = "handling"

\* C35: with [secure_storage] configured no Build or Update command is
\* handled before the mount loop has succeeded.
C35_NoCommandBeforeMount ==
    [][ (config.secure_storage /\ CommandHandlingBegins) => mpc = "done" ]_vars

(***************************************************************************)
(* Build manager: the order of the copies into latest/                     *)
(***************************************************************************)
\* The build before this one was for the same software and failed after its
\* first copy into latest/.
FailedWhilePublishing ==
    /\ bprev.valid
    /\ bprev.software = bcmd
    /\ bprev.res = "failed"
    /\ bprev.latest_copy

\* C36: latest/<binary>.json is the last file a publish writes: it is as the
\* command found it until the third copy, a build that failed while
\* publishing leaves it as it found it, and the next build of that software
\* that returns Ok has rebuilt instead of reporting no new commits.
C36_BuildInfoWrittenLast ==
    /\ bpc \in {"latest_bin", "latest_gpg", "latest_json"} =>
           latest_dir[bcmd].json = bhist.latest[bcmd].json
    /\ (bpc = "idle" /\ bres = "failed" /\ bhist.latest_copy) =>
           latest_dir[bcmd].json = bhist.latest[bcmd].json
    /\ (FailedWhilePublishing /\ bpc = "idle" /\ bres = "ok") =>
           /\ ~bhist.skipped
           /\ bhist.cargo

(***************************************************************************)
(* Reboot manager: the daily check and its cooldown                        *)
(***************************************************************************)
\* run_reboot begins in this step.
AttemptBegins == rbpc = "select" /\ rbpc' \in {"key", "reboot"}

\* C37: without a configured reboot time the scheduler never performs a
\* scheduled check, so the latch and the reboot-required file start no
\* reboot attempt on their own; every attempt is started by a RebootNow
\* message taken from the channel, and quit still ends the task.
C37_NoScheduledCheckWithoutTime ==
    [][ ~config.reboot_time =>
          /\ trigger'.kind # "wake"
          /\ rbfrom' # "scheduled"
          /\ AttemptBegins => (rbfrom' = "message" /\ rbchan' = rbchan - 1)
          /\ (rbpc = "select" /\ quit /\ rbchan = 0) => (rbpc' \in {"select", "stopped"})
      ]_vars

\* Without a reboot time, with the latch set and the reboot-required file
\* present: a RebootNow message was handled up to `sudo reboot`, no
\* scheduled check ever ran, and the task then returned on quit.
C37_Witness ==
    /\ ~config.reboot_time
    /\ REBOOT_ON_NEXT_CHECK
    /\ reboot_required
    /\ trigger.kind = "message"
    /\ attempt.invoked
    /\ rbpc = "stopped"

\* The sleep branch of the select! was taken in this step: the wake
\* computation failed, or the sleep completed and the check ran.
DailyWake ==
    /\ rbpc = "select"
    /\ trigger' # trigger
    /\ trigger'.kind \in {"wake", "wake_failed"}

\* C38: after each daily wake, the check run or the wake computation failed,
\* the loop is in its cooldown when it next selects; during the cooldown no
\* scheduled check is evaluated, the cooldown ends only by its own timer with
\* nothing else done, and RebootNow is still taken and quit still obeyed.
C38_CooldownAfterWake ==
    [][ /\ DailyWake => (~check_cooldown /\ (check_cooldown' \/ rbpc' \in {"key", "reboot"}))
        /\ (rbfrom = "scheduled" /\ rbpc' = "select") => check_cooldown'
        /\ check_cooldown =>
               /\ rbfrom' # "scheduled"
               /\ trigger' # trigger => trigger'.kind = "message"
        /\ (check_cooldown /\ ~check_cooldown') =>
               /\ rbpc = "select" /\ rbpc' = "select"
               /\ UNCHANGED <<trigger, rbchan, attempt, REBOOT_ON_NEXT_CHECK>>
        /\ (check_cooldown /\ rbpc = "select" /\ rbpc' # "select") =>
               \/ rbfrom' = "message" /\ rbchan' = rbchan - 1
               \/ rbpc' = "stopped" /\ quit
      ]_vars

\* During the cooldown that followed a daily wake a RebootNow message has
\* been taken and its attempt is running.
C38_Witness ==
    /\ check_cooldown
    /\ trigger.kind = "message"
    /\ rbfrom = "message"
    /\ rbpc \in {"key", "reboot"}
    /\ REBOOT_ON_NEXT_CHECK

(***************************************************************************)
(* Reboot manager: the time until the daily check                          *)
(***************************************************************************)
\* One call of sleep_until_reboot_check for every output of `date +%z`,
\* every UTC time and every configured time of the sets above.
InitClock ==
    /\ ChanInit
    /\ AuthInit
    /\ config = DefaultConfig
    /\ MountInit
    /\ storage_available
    /\ RebootInit
    /\ UpdInit
    /\ BuildInit
    /\ ServerInit
    /\ date_z \in DateOutputs
    /\ utc_now \in UtcTimes
    /\ reboot_at \in RebootTimes
    /\ cpc = "date"
    /\ cres = "running"
    /\ utc_offset_hours = 0
    /\ local_now = 0
    /\ sleep_for = 0

SpecClock == InitClock /\ [][ClockNext]_vars

\* The configured time of day, in seconds after midnight.
TargetSecond == reboot_at.hours * SecondsPerHour + reboot_at.minutes * 60

\* The duration has been calculated.
SleepCalculated == cpc = "sleep" \/ (cpc = "done" /\ cres = "ok")

\* C39: sleep_until_reboot_check sleeps until the next occurrence of HH:MM
\* in local time: the duration is HH:MM today minus now when that is later
\* today and HH:MM tomorrow minus now otherwise, it is more than zero and at
\* most 24 hours, and it is 24 hours exactly when now is HH:MM:00.
C39_SleepsUntilNextOccurrence ==
    SleepCalculated =>
        LET second_of_day == local_now % SecondsPerDay
        IN  /\ sleep_for > 0
            /\ sleep_for <= SecondsPerDay
            /\ (local_now + sleep_for) % SecondsPerDay = TargetSecond
            /\ (sleep_for = SecondsPerDay) <=> (second_of_day = TargetSecond)
            /\ sleep_for = IF TargetSecond > second_of_day
                              THEN TargetSecond - second_of_day
                              ELSE TargetSecond + SecondsPerDay - second_of_day

\* The duration is 24 hours: it is noon UTC in a zone twelve hours ahead,
\* midnight in local time, and the configured time is 00:00.
C39_Witness ==
    /\ SleepCalculated
    /\ utc_offset_hours = 12
    /\ local_now % SecondsPerDay = 0
    /\ reboot_at = [hours |-> 0, minutes |-> 0]
    /\ sleep_for = SecondsPerDay

\* The sign, the hours and the minutes `date +%z` printed.
PrintedSign == IF date_z[1] = "-" THEN -1 ELSE 1

PrintedHours == 10 * DigitValue[date_z[2]] + DigitValue[date_z[3]]

PrintedMinutes == 10 * DigitValue[date_z[4]] + DigitValue[date_z[5]]

\* C40: get_utc_offset_hours returns sign x HH for every output sign-HH-MM
\* of `date +%z` and drops the minutes; it fails only when the command
\* does.
C40_OffsetIsSignedHours ==
    cpc # "date" =>
        /\ cres # "InvalidOutput"
        /\ cres # "CommandFailed" => utc_offset_hours = PrintedSign * PrintedHours

\* `date +%z` printed -0330 and the offset is -3.
C40_Witness ==
    /\ date_z = <<"-", "0", "3", "3", "0">>
    /\ PrintedMinutes = 30
    /\ cpc = "target"
    /\ utc_offset_hours = -3

====
